---- MODULE Spec2Model ----
(***************************************************************************)
(* Arbitrary-order tensor-product Lagrange elements of ELEMENTS:           *)
(* HexN (src/src/element_types/elements3D.cpp) and QuadN                   *)
(* (src/src/element_types/elements2D.cpp), and the fixed-order elements    *)
(* Quad4, Quad8, Quad12, Hex8, Hex20, Hex32 and Tess16 of elements2D.cpp,  *)
(* elements3D.cpp and elements4D.cpp.                                      *)
(*                                                                         *)
(* real_t values are modelled as exact rationals <<n, d>> in lowest terms  *)
(* with d > 0.  A value whose second component is 0 is not a finite number *)
(* (the inf/NaN a division by zero produces, or an entry never written).   *)
(* Arrays are functions over 0..len-1, as in the zero-based source.        *)
(***************************************************************************)
EXTENDS Integers, Sequences, FiniteSets, TLC

\* Highest element order that is set up (HexN elem_order, QuadN orderN).
MaxOrder == 2

----------------------------------------------------------------------------
\* real_t arithmetic

Abs(a) == IF a < 0 THEN -a ELSE a

RECURSIVE GCD(_, _)
GCD(a, b) == IF b = 0 THEN a ELSE GCD(b, a % b)

\* the result of x/0 (inf or NaN); it absorbs every later + - *
NonFinite == <<1, 0>>

\* an array entry that was allocated and never written
Unwritten == <<0, 0>>

IsFinite(a) == a[2] # 0

LowestTerms(n, d, g) == <<n \div g, d \div g>>

Norm(n, d) ==
  IF d = 0 THEN NonFinite
  ELSE LowestTerms(IF d < 0 THEN -n ELSE n, Abs(d), GCD(Abs(n), Abs(d)))

Rat(n, d) == Norm(n, d)

Zero == <<0, 1>>

One == <<1, 1>>

\* least common denominator of two finite values
CommonDen(a, b) ==
  IF a[2] = b[2] THEN a[2] ELSE (a[2] \div GCD(a[2], b[2])) * b[2]

\* a + sign * b over the denominator l
AddOver(a, b, sign, l) ==
  Norm(a[1] * (l \div a[2]) + sign * b[1] * (l \div b[2]), l)

RAdd(a, b) ==
  IF ~IsFinite(a) \/ ~IsFinite(b) THEN NonFinite
  ELSE AddOver(a, b, 1, CommonDen(a, b))

RSub(a, b) ==
  IF ~IsFinite(a) \/ ~IsFinite(b) THEN NonFinite
  ELSE AddOver(a, b, -1, CommonDen(a, b))

RMul(a, b) ==
  IF ~IsFinite(a) \/ ~IsFinite(b) THEN NonFinite
  ELSE Norm(a[1] * b[1], a[2] * b[2])

\* a / b; a division by zero gives NonFinite
RDiv(a, b) ==
  IF ~IsFinite(a) \/ ~IsFinite(b) \/ b[1] = 0 THEN NonFinite
  ELSE Norm(a[1] * b[2], a[2] * b[1])

----------------------------------------------------------------------------
\* Coordinates the inputs are drawn from

\* 1D node coordinates k/MaxOrder in the reference interval [-1, 1]
NodeCoords == { Rat(k, MaxOrder) : k \in (-MaxOrder)..MaxOrder }

\* evaluation coordinates: one coordinate left of the reference interval,
\* its left end, the grid coordinate next left of the centre, the centre and
\* the right end
PointCoords ==
  { Rat(-(MaxOrder + 1), MaxOrder), Rat(-1, 1), Rat(-1, MaxOrder), Rat(0, 1),
    Rat(1, 1) }

\* sequence of the elements of the set of integers S, ascending
\* the evaluation coordinates from the left end of the reference interval to
\* its centre
GradCoords == { Rat(-1, 1), Rat(-1, MaxOrder), Rat(0, 1) }

RECURSIVE SortedNums(_)
SortedNums(S) ==
  IF S = {} THEN <<>>
  ELSE LET m == CHOOSE a \in S : \A b \in S : a <= b
       IN  <<m>> \o SortedNums(S \ {m})

ArrayOf(seq) == [idx \in 0..(Len(seq) - 1) |-> seq[idx + 1]]

\* an array of three components
Vec3(c0, c1, c2) == ArrayOf(<<c0, c1, c2>>)

\* lobatto_nodes_1D(nodes, n): n Gauss-Lobatto abscissae.  They are
\* ascending, pairwise distinct, symmetric about 0 and include both ends of
\* [-1, 1]; every such choice of n node coordinates stands for them.
LobattoNodeSets(n) ==
  IF n = 2 THEN { ArrayOf(<<Rat(-1, 1), Rat(1, 1)>>) }
  ELSE { ArrayOf([q \in 1..n |->
                    Rat(SortedNums({-MaxOrder, 0, MaxOrder} \cup S
                                   \cup { -a : a \in S })[q], MaxOrder)])
         : S \in { T \in SUBSET ((-(MaxOrder - 1))..(-1))
                     : 2 * Cardinality(T) + 3 = n } }

----------------------------------------------------------------------------
\* ascending arrays of n pairwise distinct 1D node coordinates (QuadN's
\* nodes_1d, "any spacing is accepted")
AscendingNodeSets(n) ==
  { ArrayOf([q \in 1..n |-> Rat(SortedNums(S)[q], MaxOrder)])
    : S \in { T \in SUBSET ((-MaxOrder)..MaxOrder) : Cardinality(T) = n } }

\* 1D node sets of n nodes in ascending order in which one coordinate comes
\* twice, as in {-1, 0, 0, 1}
RepeatedNodeSets(n) ==
  { [idx \in 0..(n - 1) |-> IF idx <= k THEN base[idx] ELSE base[idx - 1]]
    : base \in AscendingNodeSets(n - 1), k \in 0..(n - 2) }

----------------------------------------------------------------------------
\* HexN index arithmetic

node_rid(i, j, k, num_nodes_1d) ==
  i + j * num_nodes_1d + k * num_nodes_1d * num_nodes_1d

\* variant of vert_rid: the k stride is num_verts_1d, not its square
vert_rid_kStride(i, j, k, num_verts_1d) ==
  i + j * num_verts_1d + k * num_verts_1d

vert_rid(i, j, k, num_verts_1d) ==
  i + j * num_verts_1d + k * num_verts_1d * num_verts_1d

----------------------------------------------------------------------------
\* HexN 1D Lagrange evaluators.  Each returns the array it writes and the
\* divisors of the divisions it performed.

\* the end of a pass of the vert_j loop of lagrange_basis_1D:
\* interpolant = numerator/denominator
BasisDivide(numerator, denominator, divs) ==
  [numerator   |-> numerator,
   denominator |-> denominator,
   interpolant |-> RDiv(numerator, denominator),
   divs        |-> divs \cup {denominator}]

\* pass vert_j of the vert_j loop of lagrange_basis_1D for one vert_i
BasisPass(verts, x, vert_i, vert_j, st) ==
  IF vert_j # vert_i
  THEN BasisDivide(RMul(st.numerator, RSub(x, verts[vert_j])),
                   RMul(st.denominator,
                        RSub(verts[vert_i], verts[vert_j])),
                   st.divs)
  ELSE BasisDivide(st.numerator, st.denominator, st.divs)

\* the vert_j loop of lagrange_basis_1D for one vert_i, from vert_j on
RECURSIVE BasisLoopJ(_, _, _, _, _, _)
BasisLoopJ(verts, n, x, vert_i, vert_j, st) ==
  IF vert_j >= n THEN st
  ELSE BasisLoopJ(verts, n, x, vert_i, vert_j + 1,
                  BasisPass(verts, x, vert_i, vert_j, st))

\* variant of BasisVert: the vert_j loop starts at 1
BasisVert_fromOne(verts, n, x, vert_i) ==
  BasisLoopJ(verts, n, x, vert_i, 1,
             [numerator |-> One, denominator |-> One, interpolant |-> One,
              divs |-> {}])

BasisVert(verts, n, x, vert_i) ==
  BasisLoopJ(verts, n, x, vert_i, 0,
             [numerator |-> One, denominator |-> One, interpolant |-> One,
              divs |-> {}])

\* interp(vert_i) = interpolant
StoreInterpolant(acc, r) ==
  [vals |-> Append(acc.vals, r.interpolant), divs |-> acc.divs \cup r.divs]

\* the vert_i loop of lagrange_basis_1D
RECURSIVE BasisLoopI(_, _, _, _, _)
BasisLoopI(verts, n, x, vert_i, acc) ==
  IF vert_i >= n THEN acc
  ELSE BasisLoopI(verts, n, x, vert_i + 1,
                  StoreInterpolant(acc, BasisVert(verts, n, x, vert_i)))

\* the array a 1D routine has written, and the divisors it divided by
Written(r) == [vals |-> ArrayOf(r.vals), divs |-> r.divs]

lagrange_basis_1D(verts, n, x) ==
  Written(BasisLoopI(verts, n, x, 0, [vals |-> <<>>, divs |-> {}]))

\* variant of ProductGradient: only N = vert_i is left out of the product
RECURSIVE ProductGradient_keepJ(_, _, _, _, _, _, _)
ProductGradient_keepJ(verts, n, x, vert_i, vert_j, N, product_gradient) ==
  IF N >= n THEN product_gradient
  ELSE ProductGradient_keepJ(verts, n, x, vert_i, vert_j, N + 1,
         IF N # vert_i
         THEN RMul(product_gradient, RSub(x, verts[N]))
         ELSE product_gradient)

\* the N loop of lagrange_derivative_1D: product of (x - vert_N) over
\* N other than vert_i and vert_j
RECURSIVE ProductGradient(_, _, _, _, _, _, _)
ProductGradient(verts, n, x, vert_i, vert_j, N, product_gradient) ==
  IF N >= n THEN product_gradient
  ELSE ProductGradient(verts, n, x, vert_i, vert_j, N + 1,
         IF N # vert_j /\ N # vert_i
         THEN RMul(product_gradient, RSub(x, verts[N]))
         ELSE product_gradient)

\* the end of a pass of the second vert_j loop of lagrange_derivative_1D:
\* gradient = num_gradient/denominator
DerivDivide(denominator, num_gradient, divs) ==
  [denominator  |-> denominator,
   num_gradient |-> num_gradient,
   gradient     |-> RDiv(num_gradient, denominator),
   divs         |-> divs \cup {denominator}]

\* variant of DerivPass: the N loop starts at 1
DerivPass_fromOne(verts, n, x, vert_i, vert_j, st) ==
  IF vert_j # vert_i
  THEN DerivDivide(RMul(st.denominator,
                        RSub(verts[vert_i], verts[vert_j])),
                   RAdd(st.num_gradient,
                        ProductGradient(verts, n, x, vert_i, vert_j, 1, One)),
                   st.divs)
  ELSE DerivDivide(st.denominator, st.num_gradient, st.divs)

\* pass vert_j of the second vert_j loop of lagrange_derivative_1D
DerivPass(verts, n, x, vert_i, vert_j, st) ==
  IF vert_j # vert_i
  THEN DerivDivide(RMul(st.denominator,
                        RSub(verts[vert_i], verts[vert_j])),
                   RAdd(st.num_gradient,
                        ProductGradient(verts, n, x, vert_i, vert_j, 0, One)),
                   st.divs)
  ELSE DerivDivide(st.denominator, st.num_gradient, st.divs)

\* the second vert_j loop of lagrange_derivative_1D for one vert_i
RECURSIVE DerivLoopJ(_, _, _, _, _, _)
DerivLoopJ(verts, n, x, vert_i, vert_j, st) ==
  IF vert_j >= n THEN st
  ELSE DerivLoopJ(verts, n, x, vert_i, vert_j + 1,
                  DerivPass(verts, n, x, vert_i, vert_j, st))

DerivVert(verts, n, x, vert_i) ==
  DerivLoopJ(verts, n, x, vert_i, 0,
             [denominator |-> One, num_gradient |-> Zero, gradient |-> Zero,
              divs |-> {}])

\* derivative(vert_i) = gradient
StoreGradient(acc, r) ==
  [vals |-> Append(acc.vals, r.gradient), divs |-> acc.divs \cup r.divs]

\* the vert_i loop of lagrange_derivative_1D
RECURSIVE DerivLoopI(_, _, _, _, _)
DerivLoopI(verts, n, x, vert_i, acc) ==
  IF vert_i >= n THEN acc
  ELSE DerivLoopI(verts, n, x, vert_i + 1,
                  StoreGradient(acc, DerivVert(verts, n, x, vert_i)))

\* variant of lagrange_derivative_1D: the derivative of index vert_i is the
\* value of index vert_i times the sum over vert_j other than vert_i of
\* 1 / (x - verts(vert_j))
RECURSIVE ReciprocalLoopJ(_, _, _, _, _, _)
ReciprocalLoopJ(verts, n, x, vert_i, vert_j, st) ==
  IF vert_j >= n THEN st
  ELSE ReciprocalLoopJ(verts, n, x, vert_i, vert_j + 1,
         IF vert_j # vert_i
         THEN [sum  |-> RAdd(st.sum, RDiv(One, RSub(x, verts[vert_j]))),
               divs |-> st.divs \cup {RSub(x, verts[vert_j])}]
         ELSE st)

StoreProduct(acc, v, r) ==
  [vals |-> Append(acc.vals, RMul(v.interpolant, r.sum)),
   divs |-> acc.divs \cup v.divs \cup r.divs]

RECURSIVE ReciprocalLoopI(_, _, _, _, _)
ReciprocalLoopI(verts, n, x, vert_i, acc) ==
  IF vert_i >= n THEN acc
  ELSE ReciprocalLoopI(verts, n, x, vert_i + 1,
         StoreProduct(acc, BasisVert(verts, n, x, vert_i),
                      ReciprocalLoopJ(verts, n, x, vert_i, 0,
                                      [sum |-> Zero, divs |-> {}])))

lagrange_derivative_1D_reciprocal(verts, n, x) ==
  Written(ReciprocalLoopI(verts, n, x, 0, [vals |-> <<>>, divs |-> {}]))

lagrange_derivative_1D(verts, n, x) ==
  Written(DerivLoopI(verts, n, x, 0, [vals |-> <<>>, divs |-> {}]))

----------------------------------------------------------------------------
\* HexN tensor-product routines

NewArray(len) == [slot \in 0..(len - 1) |-> Unwritten]

\* The i loop nested in the j loop nested in the k loop that closes
\* HexN::basis and HexN::partial_*_basis assigns f0(i) * f1(j) * f2(k) to
\* entry vert_rid(i,j,k).  Writers(n, m) are the iterations that assign
\* entry m; the entry keeps the value of the last of them in loop order
\* (k outermost, i innermost).
Writers(n, m) ==
  { t \in (0..(n - 1)) \X (0..(n - 1)) \X (0..(n - 1)) :
      vert_rid(t[1], t[2], t[3], n) = m }

LoopRank(n, t) == t[1] + n * t[2] + n * n * t[3]

LastWriter(n, w) ==
  CHOOSE t \in w : \A u \in w : LoopRank(n, u) <= LoopRank(n, t)

\* variant of TensorEntry: the i and k factors are exchanged
TensorEntry_swapped(n, m, f0, f1, f2) ==
  LET w == Writers(n, m)
  IN  IF w = {} THEN Unwritten
      ELSE LET t == LastWriter(n, w)
           IN  RMul(RMul(f0[t[3]], f1[t[2]]), f2[t[1]])

\* the value entry m holds after the loops
TensorEntry(n, m, f0, f1, f2) ==
  LET w == Writers(n, m)
  IN  IF w = {} THEN Unwritten
      ELSE LET t == LastWriter(n, w)
           IN  RMul(RMul(f0[t[1]], f1[t[2]]), f2[t[3]])

\* the output array of len entries after the loops, how often each entry
\* was assigned, and the divisors of the three 1D evaluations e0, e1, e2
TensorLoop(n, len, e0, e1, e2) ==
  [arr   |-> [slot \in 0..(len - 1) |->
                TensorEntry(n, slot, e0.vals, e1.vals, e2.vals)],
   count |-> [slot \in 0..(len - 1) |-> Cardinality(Writers(n, slot))],
   divs  |-> e0.divs \cup e1.divs \cup e2.divs]

\* variant of basis: the third 1D evaluation reads pt(1) again
basis_repeatedAxis(verts, n, len, pt) ==
  TensorLoop(n, len,
             lagrange_basis_1D(verts, n, pt[0]),
             lagrange_basis_1D(verts, n, pt[1]),
             lagrange_basis_1D(verts, n, pt[1]))

\* HexN::basis(basis, point), basis an array of len entries
basis(verts, n, len, pt) ==
  TensorLoop(n, len,
             lagrange_basis_1D(verts, n, pt[0]),
             lagrange_basis_1D(verts, n, pt[1]),
             lagrange_basis_1D(verts, n, pt[2]))

partial_xi_basis(verts, n, len, pt) ==
  TensorLoop(n, len,
             lagrange_derivative_1D(verts, n, pt[0]),
             lagrange_basis_1D(verts, n, pt[1]),
             lagrange_basis_1D(verts, n, pt[2]))

\* variant of partial_eta_basis: the derivative is taken along xi
partial_eta_basis_alongXi(verts, n, len, pt) ==
  TensorLoop(n, len,
             lagrange_derivative_1D(verts, n, pt[0]),
             lagrange_basis_1D(verts, n, pt[1]),
             lagrange_basis_1D(verts, n, pt[2]))

partial_eta_basis(verts, n, len, pt) ==
  TensorLoop(n, len,
             lagrange_basis_1D(verts, n, pt[0]),
             lagrange_derivative_1D(verts, n, pt[1]),
             lagrange_basis_1D(verts, n, pt[2]))

partial_mu_basis(verts, n, len, pt) ==
  TensorLoop(n, len,
             lagrange_basis_1D(verts, n, pt[0]),
             lagrange_basis_1D(verts, n, pt[1]),
             lagrange_derivative_1D(verts, n, pt[2]))

----------------------------------------------------------------------------
\* HexN::create_lobatto_nodes: the 1D vertex coordinates are the 1D nodes
\* (elem_order 0) or every other 1D node (elem_order >= 1), written to the
\* front of an array of len entries

RECURSIVE SaveVerts(_, _, _, _, _, _)
SaveVerts(nodes_1d, num_nodes_1d, step, i, vert_id, arr) ==
  IF i >= num_nodes_1d THEN arr
  ELSE SaveVerts(nodes_1d, num_nodes_1d, step, i + step, vert_id + 1,
                 [arr EXCEPT ![vert_id] = nodes_1d[i]])

create_lobatto_nodes(element_order, lobatto, len) ==
  LET num_nodes_1d == IF element_order = 0 THEN 2 ELSE 2 * element_order + 1
  IN  SaveVerts(lobatto, num_nodes_1d,
                IF element_order = 0 THEN 1 ELSE 2, 0, 0, NewArray(len))

\* an entry of Vert_Node_map_ that was allocated and never assigned
Unassigned == -1

\* The loops of setup_HexN that fill Vert_Node_map_: i, j and k each run
\* over 0, step, 2*step, ... below num_nodes_1d (k outermost, i innermost)
\* and the counter vert_rid, which starts at 0, is incremented once per
\* pass.  LoopPass is the (i, j, k) of the pass in which the counter is r.
LoopCount(num_nodes_1d, step) == ((num_nodes_1d - 1) \div step) + 1

LoopPass(cnt, step, r) ==
  <<step * (r % cnt), step * ((r \div cnt) % cnt), step * (r \div (cnt * cnt))>>

\* variant of VertNodeLoop: the loops visit every node, whatever the step
VertNodeLoop_everyNode(num_nodes_1d, step, len) ==
  [vert_id \in 0..(len - 1) |->
     LET t == LoopPass(num_nodes_1d, 1, vert_id)
     IN  node_rid(t[1], t[2], t[3], num_nodes_1d)]

VertNodeLoop(num_nodes_1d, step, len) ==
  LET cnt == LoopCount(num_nodes_1d, step)
  IN  [vert_id \in 0..(len - 1) |->
         IF vert_id < cnt * cnt * cnt
         THEN LET t == LoopPass(cnt, step, vert_id)
              IN  node_rid(t[1], t[2], t[3], num_nodes_1d)
         ELSE Unassigned]

----------------------------------------------------------------------------
\* QuadN

\* number of reference dimensions of the 2D elements
num_dim == 2

\* variant of QuadLoopN: only N = j is left out of the product
RECURSIVE QuadLoopN_keepI(_, _, _, _, _, _, _)
QuadLoopN_keepI(xi, orderN, x, i, j, N, s) ==
  IF N >= orderN + 1 THEN s
  ELSE QuadLoopN_keepI(xi, orderN, x, i, j, N + 1,
         IF N # j THEN RMul(s, RSub(x, xi[N])) ELSE s)

\* the N loop of QuadN::lagrange_1D: s, the product of (x - xi(N)) over N
\* other than i and j
RECURSIVE QuadLoopN(_, _, _, _, _, _, _)
QuadLoopN(xi, orderN, x, i, j, N, s) ==
  IF N >= orderN + 1 THEN s
  ELSE QuadLoopN(xi, orderN, x, i, j, N + 1,
         IF N # j /\ N # i THEN RMul(s, RSub(x, xi[N])) ELSE s)

\* the end of a pass of the j loop of QuadN::lagrange_1D:
\* c = n/d and q = p/d
QuadDivide(n, d, p, divs) ==
  [n |-> n, d |-> d, p |-> p, c |-> RDiv(n, d), q |-> RDiv(p, d),
   divs |-> divs \cup {d}]

\* variant of QuadPass: d multiplies (xi(j) - xi(i))
QuadPass_reversed(xi, orderN, x, i, j, st) ==
  IF j # i
  THEN QuadDivide(RMul(st.n, RSub(x, xi[j])),
                  RMul(st.d, RSub(xi[j], xi[i])),
                  RAdd(st.p, QuadLoopN(xi, orderN, x, i, j, 0, One)),
                  st.divs)
  ELSE QuadDivide(st.n, st.d, st.p, st.divs)

\* pass j of the j loop of QuadN::lagrange_1D for one i
QuadPass(xi, orderN, x, i, j, st) ==
  IF j # i
  THEN QuadDivide(RMul(st.n, RSub(x, xi[j])),
                  RMul(st.d, RSub(xi[i], xi[j])),
                  RAdd(st.p, QuadLoopN(xi, orderN, x, i, j, 0, One)),
                  st.divs)
  ELSE QuadDivide(st.n, st.d, st.p, st.divs)

\* the j loop of QuadN::lagrange_1D for one i
RECURSIVE QuadLoopJ(_, _, _, _, _, _)
QuadLoopJ(xi, orderN, x, i, j, st) ==
  IF j >= orderN + 1 THEN st
  ELSE QuadLoopJ(xi, orderN, x, i, j + 1, QuadPass(xi, orderN, x, i, j, st))

\* interp(i) = c and Dinterp(i) = q
StoreQuad(acc, r) ==
  [c_vals |-> Append(acc.c_vals, r.c),
   q_vals |-> Append(acc.q_vals, r.q),
   q      |-> r.q,
   divs   |-> acc.divs \cup r.divs]

\* the i loop of QuadN::lagrange_1D; q is declared outside it
RECURSIVE QuadLoopI(_, _, _, _, _)
QuadLoopI(xi, orderN, x, i, acc) ==
  IF i >= orderN + 1 THEN acc
  ELSE QuadLoopI(xi, orderN, x, i + 1,
         StoreQuad(acc,
                   QuadLoopJ(xi, orderN, x, i, 0,
                             [n |-> One, d |-> One, p |-> Zero, c |-> One,
                              q |-> acc.q, divs |-> {}])))

\* the arrays interp and Dinterp after the i loop
QuadWritten(r) ==
  [interp |-> ArrayOf(r.c_vals), Dinterp |-> ArrayOf(r.q_vals),
   divs |-> r.divs]

lagrange_1D(x, xi, orderN) ==
  QuadWritten(QuadLoopI(xi, orderN, x, 0,
                        [c_vals |-> <<>>, q_vals |-> <<>>, q |-> Zero,
                         divs |-> {}]))

\* the one-based indices QuadN::basis_partials derives from m
QuadJ(m, N) == (m \div N) + 1

QuadI(m, N) == (m + 1) - N * (QuadJ(m, N) - 1)

Row2(a, b) == [dim \in 0..(num_dim - 1) |-> IF dim = 0 THEN a ELSE b]

NewArray2(len) == [slot \in 0..(len - 1) |-> Row2(Unwritten, Unwritten)]

\* The m loop of QuadN::basis_partials.  Every pass calls lagrange_1D with
\* the same arguments, and lagrange_1D assigns every entry of the arrays
\* it is given, so every pass reads the arrays e0 (xi direction) and e1
\* (eta direction); val_1d and DVal_1d are reset to zero at the end of a
\* pass.
MLoop(xi, N, e0, e1) ==
  [lag_nodes |->
     [mq \in 0..(N * N - 1) |->
        Row2(xi[QuadI(mq, N) - 1], xi[QuadJ(mq, N) - 1])],
   val_2d |->
     [mq \in 0..(N * N - 1) |->
        Row2(e0.interp[QuadI(mq, N) - 1], e1.interp[QuadJ(mq, N) - 1])],
   DVal_2d |->
     [mq \in 0..(N * N - 1) |->
        Row2(e0.Dinterp[QuadI(mq, N) - 1], e1.Dinterp[QuadJ(mq, N) - 1])],
   lag_basis_2d |->
     [mq \in 0..(N * N - 1) |->
        RMul(e0.interp[QuadI(mq, N) - 1], e1.interp[QuadJ(mq, N) - 1])],
   lag_partial |->
     [mq \in 0..(N * N - 1) |->
        Row2(RMul(e0.Dinterp[QuadI(mq, N) - 1],
                  e1.interp[QuadJ(mq, N) - 1]),
             RMul(e0.interp[QuadI(mq, N) - 1],
                  e1.Dinterp[QuadJ(mq, N) - 1]))],
   val_1d  |-> [slot \in 0..(N - 1) |-> Zero],
   DVal_1d |-> [slot \in 0..(N - 1) |-> Zero],
   divs    |-> e0.divs \cup e1.divs]

basis_partials(xi, pt, orderN) ==
  MLoop(xi, orderN + 1, lagrange_1D(pt[0], xi, orderN),
        lagrange_1D(pt[1], xi, orderN))

\* entry idx of an array of len entries; an index past the end reads
\* whatever lies behind the array
\* variant of corner_ids: the last two corners change places
corner_ids_swapped(N) == <<0, N - 1, (N * N) - 1, (N * N) - N>>

\* QuadN::corners: the flat indices of the corners A, B, C, D
corner_ids(N) == <<0, N - 1, (N * N) - N, (N * N) - 1>>

\* QuadN::corners: lag_corner(corner, dim) = lag_nodes(corner_ids[corner],
\* dim)
corners(nodes, order) ==
  LET ids == corner_ids(order + 1)
  IN  [corner \in 0..3 |->
         [dim \in 0..(num_dim - 1) |-> nodes[ids[corner + 1]][dim]]]

ReadAt(arr, len, idx, behind) == IF idx < len THEN arr[idx] ELSE behind

\* x_point(dim) += lag_nodes(this_vert, dim) * lag_basis_2d(this_vert)
PositionPass(x, verts, basis_vals, len, this_vert, behind) ==
  [dim \in 0..(num_dim - 1) |->
     RAdd(x[dim],
          RMul(ReadAt(verts, len, this_vert, Row2(behind, behind))[dim],
               ReadAt(basis_vals, len, this_vert, behind)))]

\* passes this_vert to Nnodes_2d - 1 of the loop over the vertices
RECURSIVE PositionLoop(_, _, _, _, _, _, _)
PositionLoop(x, verts, basis_vals, len, this_vert, Nnodes_2d, behind) ==
  IF this_vert >= Nnodes_2d THEN x
  ELSE PositionLoop(PositionPass(x, verts, basis_vals, len, this_vert, behind),
                    verts, basis_vals, len, this_vert + 1, Nnodes_2d, behind)

\* QuadN::physical_position(x_point, lag_nodes, lag_basis_2d, orderN) on
\* arrays of len vertices: what x_point holds afterwards
physical_position(x, verts, basis_vals, len, order, behind) ==
  PositionLoop(x, verts, basis_vals, len, 0, (order + 1) * (order + 1), behind)

\* vertex arrays a caller maps an element with: the nodes as basis_partials
\* wrote them, and the same sheared along xi
VertexArrays(nodes) ==
  { nodes, [m \in DOMAIN nodes |-> Row2(RAdd(nodes[m][0], nodes[m][1]),
                                        nodes[m][1])] }

\* what the caller's x_point holds before a call: zeros, or the numbers of
\* an earlier use
XPointContents == { Row2(Zero, Zero), Row2(One, Rat(-1, 1)) }

----------------------------------------------------------------------------
\* LagrangeElement.  tests/test_lagrange_element.cpp drives an element whose
\* routines (LagrangeProductBasis.h declares eval_basis and eval_approx) and
\* whose node generator equispaced_points are not part of the sources at
\* hand; they are modelled after their specification.

\* N points spread evenly from Zl to Zr
equispaced_points(N, Zl, Zr) ==
  [idx \in 0..(N - 1) |-> RAdd(Zl, RMul(RSub(Zr, Zl), Rat(idx, N - 1)))]

\* the product over j other than a, from j on, of
\* (x - Z(j)) / (Z(a) - Z(j))
RECURSIVE Lagrange1D(_, _, _, _, _)
Lagrange1D(Z, N, a, x, j) ==
  IF j >= N THEN One
  ELSE RMul(IF j # a
            THEN RDiv(RSub(x, Z[j]), RSub(Z[a], Z[j]))
            ELSE One,
            Lagrange1D(Z, N, a, x, j + 1))

\* multi-index of a flat index, axis 1 fastest
multi_index(flat, N) == <<flat % N, (flat \div N) % N, flat \div (N * N)>>

\* the tensor-product basis function I at X
eval_basis(I, X, Z, N) ==
  LET t == multi_index(I, N)
  IN  RMul(RMul(Lagrange1D(Z, N, t[1], X[0], 0),
                Lagrange1D(Z, N, t[2], X[1], 0)),
           Lagrange1D(Z, N, t[3], X[2], 0))

\* the N values of the 1D basis functions at x, from index a on
RECURSIVE Lagrange1DValues(_, _, _, _, _)
Lagrange1DValues(Z, N, x, a, acc) ==
  IF a >= N THEN ArrayOf(acc)
  ELSE Lagrange1DValues(Z, N, x, a + 1,
                        Append(acc, Lagrange1D(Z, N, a, x, 0)))

\* the basis values of all flat indices at X
basis_values(X, Z, N) ==
  LET L0 == Lagrange1DValues(Z, N, X[0], 0, <<>>)
      L1 == Lagrange1DValues(Z, N, X[1], 0, <<>>)
      L2 == Lagrange1DValues(Z, N, X[2], 0, <<>>)
  IN  [flat \in 0..(N * N * N - 1) |->
         LET t == multi_index(flat, N)
         IN  RMul(RMul(L0[t[1]], L1[t[2]]), L2[t[3]])]

\* coeffs(from) * values(from) + ... + coeffs(to - 1) * values(to - 1),
\* added to acc in this order
RECURSIVE WeightedSum(_, _, _, _, _)
WeightedSum(coeffs, values, from, to, acc) ==
  IF from >= to THEN acc
  ELSE WeightedSum(coeffs, values, from + 1, to,
                   RAdd(acc, RMul(coeffs[from], values[from])))

\* the same sum over the first rows * len entries, len entries at a time
\* (a sum that is not finite stays so)
RECURSIVE WeightedSumRows(_, _, _, _)
WeightedSumRows(coeffs, values, len, rows) ==
  IF rows = 0 THEN Zero
  ELSE LET before == WeightedSumRows(coeffs, values, len, rows - 1)
       IN  IF ~IsFinite(before) THEN NonFinite
           ELSE WeightedSum(coeffs, values, (rows - 1) * len, rows * len,
                            before)

\* variant of eval_approx: the last coefficient is left out
eval_approx_short(coeffs, X, Z, N) ==
  LET values == basis_values(X, Z, N)
  IN  WeightedSum(coeffs, values, (N * N - 1) * N, N * N * N - 1,
                  WeightedSumRows(coeffs, values, N, N * N - 1))

\* the approximation: the sum over the flat indices of the coefficient
\* times the basis value at X
eval_approx(coeffs, X, Z, N) ==
  WeightedSumRows(coeffs, basis_values(X, Z, N), N, N * N)

\* The work array C of the element (LagrangeProductBasis.h: "Work array
\* for intermediate coefficients") holds, between the two halves of an
\* evaluation, the coefficients contracted along the first axis.

\* c(N * jk) * L(0) + ... + c(N * jk + N - 1) * L(N - 1), from i on
RECURSIVE RowSum(_, _, _, _, _)
RowSum(c, L, N, jk, i) ==
  IF i >= N THEN Zero
  ELSE RAdd(RMul(c[N * jk + i], L[i]), RowSum(c, L, N, jk, i + 1))

\* first half of eval_approx: the intermediate coefficients, one for each
\* pair of indices along the second and third axis
contract_first_axis(c, X, Z, N) ==
  LET L0 == Lagrange1DValues(Z, N, X[0], 0, <<>>)
  IN  [jk \in 0..(N * N - 1) |-> RowSum(c, L0, N, jk, 0)]

\* the sum over the pairs, from jk on, of the intermediate coefficient
\* times the two 1D basis values
RECURSIVE PlaneSum(_, _, _, _, _)
PlaneSum(work, L1, L2, N, jk) ==
  IF jk >= N * N THEN Zero
  ELSE RAdd(RMul(work[jk], RMul(L1[jk % N], L2[jk \div N])),
            PlaneSum(work, L1, L2, N, jk + 1))

\* second half of eval_approx: the value, from the work array
finish_from_work(work, X, Z, N) ==
  PlaneSum(work, Lagrange1DValues(Z, N, X[1], 0, <<>>),
           Lagrange1DValues(Z, N, X[2], 0, <<>>), N, 0)

\* passes i to stop - 1 of the loop of test1:
\* sum1 += p.c[i] * eval_basis(i, X)
RECURSIVE Test1Passes(_, _, _, _, _, _, _)
Test1Passes(coeffs, X, Z, N, i, stop, sum) ==
  IF i >= stop THEN sum
  ELSE Test1Passes(coeffs, X, Z, N, i + 1, stop,
                   RAdd(sum, RMul(coeffs[i], eval_basis(i, X, Z, N))))

\* the first rows * N passes of the loop of test1, sum1 starting at 0
\* (a sum that is not finite stays so)
RECURSIVE Test1Loop(_, _, _, _, _)
Test1Loop(coeffs, X, Z, N, rows) ==
  IF rows = 0 THEN Zero
  ELSE LET before == Test1Loop(coeffs, X, Z, N, rows - 1)
       IN  IF ~IsFinite(before) THEN NonFinite
           ELSE Test1Passes(coeffs, X, Z, N, (rows - 1) * N, rows * N,
                            before)

RAbs(a) == IF IsFinite(a) THEN <<Abs(a[1]), a[2]>> ELSE a

\* the sum over j other than a, from j on, of the product over k other than
\* a and j of (x - Z(k)), each factor over (Z(a) - Z(k)), and the whole
\* over (Z(a) - Z(j)): the derivative of the 1D basis function a at x in
\* the form that stays finite at a node
RECURSIVE Lagrange1DOthers(_, _, _, _, _, _)
Lagrange1DOthers(Z, N, a, j, x, k) ==
  IF k >= N THEN One
  ELSE RMul(IF k # a /\ k # j
            THEN RDiv(RSub(x, Z[k]), RSub(Z[a], Z[k]))
            ELSE One,
            Lagrange1DOthers(Z, N, a, j, x, k + 1))

RECURSIVE Lagrange1DDeriv(_, _, _, _, _)
Lagrange1DDeriv(Z, N, a, x, j) ==
  IF j >= N THEN Zero
  ELSE RAdd(IF j # a
            THEN RDiv(Lagrange1DOthers(Z, N, a, j, x, 0), RSub(Z[a], Z[j]))
            ELSE Zero,
            Lagrange1DDeriv(Z, N, a, x, j + 1))

\* the value (axis # d) or the derivative (axis = d) of the 1D basis
\* function a at x
AxisFactor(Z, N, a, x, axis, d) ==
  IF axis = d THEN Lagrange1DDeriv(Z, N, a, x, 0) ELSE Lagrange1D(Z, N, a, x, 0)

\* the partial derivative along direction d of the basis function of
\* multi-index t at X
AxisProduct(Z, N, t, X, d) ==
  RMul(RMul(AxisFactor(Z, N, t[1], X[0], 0, d),
            AxisFactor(Z, N, t[2], X[1], 1, d)),
       AxisFactor(Z, N, t[3], X[2], 2, d))

\* the gradient of the tensor-product basis function I at X: along each
\* direction d one factor is differentiated
eval_grad_basis(I, X, Z, N) ==
  LET t == multi_index(I, N)
  IN  Vec3(AxisProduct(Z, N, t, X, 0), AxisProduct(Z, N, t, X, 1),
           AxisProduct(Z, N, t, X, 2))

\* the N derivatives of the 1D basis functions at x, from index a on
RECURSIVE Lagrange1DDerivs(_, _, _, _, _)
Lagrange1DDerivs(Z, N, x, a, acc) ==
  IF a >= N THEN ArrayOf(acc)
  ELSE Lagrange1DDerivs(Z, N, x, a + 1,
                        Append(acc, Lagrange1DDeriv(Z, N, a, x, 0)))

\* the partial derivatives along direction d of all flat indices at X, from
\* the 1D values L and the 1D derivatives D of the three axes
GradTable(N, d, L, D) ==
  [flat \in 0..(N * N * N - 1) |->
     LET t == multi_index(flat, N)
     IN  RMul(RMul((IF d = 0 THEN D ELSE L)[0][t[1]],
                   (IF d = 1 THEN D ELSE L)[1][t[2]]),
              (IF d = 2 THEN D ELSE L)[2][t[3]])]

grad_values(X, Z, N, d) ==
  GradTable(N, d,
            Vec3(Lagrange1DValues(Z, N, X[0], 0, <<>>),
                 Lagrange1DValues(Z, N, X[1], 0, <<>>),
                 Lagrange1DValues(Z, N, X[2], 0, <<>>)),
            Vec3(Lagrange1DDerivs(Z, N, X[0], 0, <<>>),
                 Lagrange1DDerivs(Z, N, X[1], 0, <<>>),
                 Lagrange1DDerivs(Z, N, X[2], 0, <<>>)))

\* the gradient of the approximation: along each direction the sum over the
\* flat indices of the coefficient times the partial derivative at X
eval_grad_approx(coeffs, X, Z, N) ==
  Vec3(WeightedSumRows(coeffs, grad_values(X, Z, N, 0), N, N * N),
       WeightedSumRows(coeffs, grad_values(X, Z, N, 1), N, N * N),
       WeightedSumRows(coeffs, grad_values(X, Z, N, 2), N, N * N))

\* variant of Test2Passes: every direction adds grad_phi[0]
RECURSIVE Test2Passes_firstComponent(_, _, _, _, _, _, _, _)
Test2Passes_firstComponent(coeffs, X, Z, N, d, i, stop, sum) ==
  IF i >= stop THEN sum
  ELSE Test2Passes_firstComponent(
         coeffs, X, Z, N, d, i + 1, stop,
         RAdd(sum, RMul(coeffs[i], eval_grad_basis(i, X, Z, N)[0])))

\* passes i to stop - 1 of the loop of test2, for direction d:
\* ddf += p.c[i] * grad_phi[d]
RECURSIVE Test2Passes(_, _, _, _, _, _, _, _)
Test2Passes(coeffs, X, Z, N, d, i, stop, sum) ==
  IF i >= stop THEN sum
  ELSE Test2Passes(coeffs, X, Z, N, d, i + 1, stop,
                   RAdd(sum, RMul(coeffs[i], eval_grad_basis(i, X, Z, N)[d])))

\* the first rows * N passes of the loop of test2 for direction d, the sum
\* starting at 0 (a sum that is not finite stays so)
RECURSIVE Test2Loop(_, _, _, _, _, _)
Test2Loop(coeffs, X, Z, N, d, rows) ==
  IF rows = 0 THEN Zero
  ELSE LET before == Test2Loop(coeffs, X, Z, N, d, rows - 1)
       IN  IF ~IsFinite(before) THEN NonFinite
           ELSE Test2Passes(coeffs, X, Z, N, d, (rows - 1) * N, rows * N,
                            before)

\* the reference coordinate along axis a of the node of flat index flat
NodeCoord(flat, a, Z, N) == Z[multi_index(flat, N)[a + 1]]

AsReference(xi, eta, mu) == <<xi, eta, mu>>

Sheared(xi, eta, mu) == <<RAdd(RAdd(xi, xi), eta), eta, RAdd(mu, xi)>>

Tapered(xi, eta, mu) == <<RMul(xi, RAdd(eta, Rat(2, 1))), eta, mu>>

Flattened(xi, eta, mu) == <<xi, eta, Zero>>

Folded(xi, eta, mu) == <<RMul(xi, eta), eta, mu>>

Shapes == { "AsReference", "Sheared", "Tapered", "Flattened", "Folded" }

\* where the map of the given shape takes a reference node
MapNode(shape, xi, eta, mu) ==
  CASE shape = "AsReference" -> AsReference(xi, eta, mu)
    [] shape = "Sheared" -> Sheared(xi, eta, mu)
    [] shape = "Tapered" -> Tapered(xi, eta, mu)
    [] shape = "Flattened" -> Flattened(xi, eta, mu)
    [] shape = "Folded" -> Folded(xi, eta, mu)

\* vertex coordinates by axis and flat index, from a map of the reference node
VertexArray3(Z, N, shape) ==
  [a \in 0..2 |->
     [flat \in 0..(N * N * N - 1) |->
        MapNode(shape, NodeCoord(flat, 0, Z, N), NodeCoord(flat, 1, Z, N),
                NodeCoord(flat, 2, Z, N))[a + 1]]]

\* vertex configurations of an element: the reference element itself, a
\* sheared one, a tapered one, one flattened to zero volume, and one folded
\* over along the plane eta = 0
VertexConfigs(Z, N) ==
  { VertexArray3(Z, N, shape) : shape \in Shapes }

\* J[a][b] = sum over i of vertices[i][a] * gradient(point)[i][b]
eval_jac(verts, X, Z, N) ==
  Vec3(eval_grad_approx(verts[0], X, Z, N), eval_grad_approx(verts[1], X, Z, N),
       eval_grad_approx(verts[2], X, Z, N))

\* the determinant of the matrix obtained from J by leaving out row a and
\* column b
Minor(J, a, b) ==
  LET r == IF a = 0 THEN <<1, 2>> ELSE IF a = 1 THEN <<0, 2>> ELSE <<0, 1>>
      c == IF b = 0 THEN <<1, 2>> ELSE IF b = 1 THEN <<0, 2>> ELSE <<0, 1>>
  IN  RSub(RMul(J[r[1]][c[1]], J[r[2]][c[2]]),
           RMul(J[r[1]][c[2]], J[r[2]][c[1]]))

Cofactor(J, a, b) ==
  IF (a + b) % 2 = 0 THEN Minor(J, a, b) ELSE RSub(Zero, Minor(J, a, b))

\* closed form of the determinant of a 3 x 3 matrix, along its first row
Det3(J) ==
  RAdd(RAdd(RMul(J[0][0], Cofactor(J, 0, 0)), RMul(J[0][1], Cofactor(J, 0, 1))),
       RMul(J[0][2], Cofactor(J, 0, 2)))

eval_det_jac(verts, X, Z, N) == Det3(eval_jac(verts, X, Z, N))

\* a 3 x 3 matrix nothing was written to
Unwritten33 == [a \in 0..2 |-> [b \in 0..2 |-> Unwritten]]

\* row a of the cofactors of J, each over det
CofactorRow(J, det, a) ==
  Vec3(RDiv(Cofactor(J, a, 0), det), RDiv(Cofactor(J, a, 1), det),
       RDiv(Cofactor(J, a, 2), det))

\* row a of the transposed cofactors of J, each over det
InverseRow(J, det, a) ==
  Vec3(RDiv(Cofactor(J, 0, a), det), RDiv(Cofactor(J, 1, a), det),
       RDiv(Cofactor(J, 2, a), det))

\* variant of InverseOf: the cofactors are not transposed
InverseOf_untransposed(J, det) ==
  IF det = Zero
  THEN [raised |-> "SingularMapping", inv |-> Unwritten33]
  ELSE [raised |-> "none",
        inv |-> Vec3(CofactorRow(J, det, 0), CofactorRow(J, det, 1),
                    CofactorRow(J, det, 2))]

\* variant of InverseOf: the determinant is not looked at
InverseOf_unchecked(J, det) ==
  [raised |-> "none",
   inv |-> Vec3(InverseRow(J, det, 0), InverseRow(J, det, 1),
                    InverseRow(J, det, 2))]

\* the inverse of J of determinant det: SingularMapping when det is 0, else
\* the transposed cofactors over det
InverseOf(J, det) ==
  IF det = Zero
  THEN [raised |-> "SingularMapping", inv |-> Unwritten33]
  ELSE [raised |-> "none",
        inv |-> Vec3(InverseRow(J, det, 0), InverseRow(J, det, 1),
                    InverseRow(J, det, 2))]

InverseOfJ(J) == InverseOf(J, Det3(J))

eval_inv_jac(verts, X, Z, N) == InverseOfJ(eval_jac(verts, X, Z, N))

\* A number of the Complex instantiation whose imaginary part is of the order
\* of the step h of test3: re + i*h*im is the pair <<re, im>>.  A product
\* drops the term h*h*im*im, which is beyond the precision of its real part.
Complex(re, im) == <<re, im>>

real(z) == z[1]

\* common::imag(z)/h
imag_over_h(z) == z[2]

CSub(z, w) == Complex(RSub(real(z), real(w)), RSub(imag_over_h(z), imag_over_h(w)))

CMul(z, w) ==
  Complex(RMul(real(z), real(w)),
          RAdd(RMul(real(z), imag_over_h(w)), RMul(imag_over_h(z), real(w))))

\* z / w for w with no imaginary part
CDiv(z, w) == Complex(RDiv(real(z), real(w)), RDiv(imag_over_h(z), real(w)))

\* Lagrange1D over the Complex numbers, the nodes Z having no imaginary part
RECURSIVE CLagrange1D(_, _, _, _, _)
CLagrange1D(Z, N, a, x, j) ==
  IF j >= N THEN Complex(One, Zero)
  ELSE CMul(IF j # a
            THEN CDiv(CSub(x, Complex(Z[j], Zero)),
                      Complex(RSub(Z[a], Z[j]), Zero))
            ELSE Complex(One, Zero),
            CLagrange1D(Z, N, a, x, j + 1))

\* eval_basis over the Complex numbers
Ceval_basis(I, Xc, Z, N) ==
  LET t == multi_index(I, N)
  IN  CMul(CMul(CLagrange1D(Z, N, t[1], Xc[0], 0),
                CLagrange1D(Z, N, t[2], Xc[1], 0)),
           CLagrange1D(Z, N, t[3], Xc[2], 0))

\* variant of ComplexStep: i*h is added to coordinate 0 whatever d
ComplexStep_first(X, d) ==
  [axis \in 0..2 |-> Complex(X[axis], IF axis = 0 THEN One ELSE Zero)]

\* Xc of test3: a copy of X with i*h added to coordinate d
ComplexStep(X, d) ==
  [axis \in 0..2 |-> Complex(X[axis], IF axis = d THEN One ELSE Zero)]

\* dphi of test3 along direction d: imag(eval_basis(0, Xc))/h
ComplexStepDerivative(X, d, Z, N) ==
  imag_over_h(Ceval_basis(0, ComplexStep(X, d), Z, N))

\* common::abs((a - b)/c)
RelError(a, b, c) == RAbs(RDiv(RSub(a, b), c))

\* coefficient arrays with entries between 0 and 1
CoeffVectors(len) ==
  { [slot \in 0..(len - 1) |->
       Rat((mul * (slot + (slot * slot) \div 4) + (mul \div 2)) % 3, 2)]
    : mul \in 0..2 }

----------------------------------------------------------------------------
\* Fixed-order elements: Quad4, Quad8, Quad12 (elements2D.cpp), Hex8, Hex20,
\* Hex32 (elements3D.cpp) and Tess16 (elements4D.cpp).  Each routine is a
\* sequence of loops  for (vert_lid = a; vert_lid <= b; vert_lid += k)
\* target(vert_lid) = formula;  the operator of a routine gives, for every
\* index of the target array, the formula of the last loop that writes it.

FixedElems == { "Quad4", "Quad8", "Quad12", "Hex8", "Hex20", "Hex32", "Tess16" }

\* surface_to_dof_lid after a constructor: a ragged array of nsurfaces rows
\* of stride entries each, allocated without initial values, on which the
\* assignments <<s, i, v>> were executed in order
SurfaceTable(nsurfaces, stride, assigns) ==
  [s \in 0..(nsurfaces - 1) |->
     [i \in 0..(stride - 1) |->
        LET hits == { q \in 1..Len(assigns) :
                        assigns[q][1] = s /\ assigns[q][2] = i }
        IN  IF hits = {} THEN Unassigned
            ELSE assigns[CHOOSE q \in hits : \A r \in hits : r <= q][3]]]

\* passes vert_lid to last of  x_point(dim) += vertices(vert_lid, dim) *
\* basis(vert_lid)  on arrays of len vertices
RECURSIVE FixedPositionLoop(_, _, _, _, _, _, _)
FixedPositionLoop(x, basis_a, verts, len, vert_lid, last, behind) ==
  IF vert_lid > last THEN x
  ELSE FixedPositionLoop(
         [dim \in DOMAIN x |->
            RAdd(x[dim],
                 RMul(ReadAt(verts, len, vert_lid,
                             [d \in DOMAIN x |-> behind])[dim],
                      ReadAt(basis_a, len, vert_lid, behind)))],
         basis_a, verts, len, vert_lid + 1, last, behind)

\* the end of physical_position: x_point(dim) = 0.0 for every dim, then the
\* sum over vert_lid = 0..last.  x_point is what the caller's array holds
\* afterwards, written the indices of the local array basis that hold a
\* value, read the vertex indices the sum reads basis and vertices at.
FixedPositionSum(basis_a, verts, len, ndim, last, behind) ==
  [x_point |-> FixedPositionLoop([dim \in 0..(ndim - 1) |-> Zero], basis_a,
                                 verts, len, 0, last, behind),
   written |-> { v \in DOMAIN basis_a : basis_a[v] # Unwritten },
   read    |-> 0..last]

\* --------------------------------------------------------------------------
\* Quad4 (src/src/element_types/elements2D.cpp)

\* Quad4::ref_vert, vertex by vertex, as listed
Quad4_ref_vert ==
  ArrayOf(<<
    Rat(-1, 1), Rat(-1, 1),
    Rat(1, 1), Rat(-1, 1),
    Rat(1, 1), Rat(1, 1),
    Rat(-1, 1), Rat(1, 1) >>)

\* Quad4::vert_to_node
Quad4_vert_to_node ==
  ArrayOf(<<0, 2, 6, 8>>)

\* Quad4::Quad4(): the assignments surface_to_dof_lid(s, i) = v of the
\* constructor as <<s, i, v>>, in the order they are executed, on
\* nsurfaces = 4 surfaces of stride 2
Quad4_ctor ==
  SurfaceTable(4, 2,
    << <<0, 0, 0>>, <<0, 1, 1>>, <<1, 0, 3>>, <<1, 1, 2>>,
       <<2, 0, 0>>, <<2, 1, 3>>, <<3, 0, 1>>, <<3, 1, 2>> >>)

\* Quad4::basis with the factor 1/2 in place of 1/4
Quad4_basis_half(xi_point) ==
  LET ref_verts(v, d) == Quad4_ref_vert[v * 2 + d]
  IN  [vert_lid \in 0..3 |->
        RMul(RMul(RDiv(Rat(1, 1), Rat(2, 1)),
                  RAdd(Rat(1, 1), RMul(xi_point[0], ref_verts(vert_lid, 0)))),
             RAdd(Rat(1, 1), RMul(xi_point[1], ref_verts(vert_lid, 1))))]

\* Quad4::basis(basis, xi_point): what the routine leaves in
\* an array of num_verts = 4 entries
Quad4_basis(xi_point) ==
  LET ref_verts(v, d) == Quad4_ref_vert[v * 2 + d]
  IN  [vert_lid \in 0..3 |->
        IF vert_lid \in 0..3 THEN
          RMul(RMul(RDiv(Rat(1, 1), Rat(4, 1)),
                    RAdd(Rat(1, 1),
                         RMul(xi_point[0], ref_verts(vert_lid, 0)))),
               RAdd(Rat(1, 1), RMul(xi_point[1], ref_verts(vert_lid, 1))))
        ELSE Unwritten]

\* Quad4::partial_xi_basis(partial_xi, xi_point): what the routine leaves in
\* an array of num_verts = 4 entries
Quad4_partial_xi_basis(xi_point) ==
  LET ref_verts(v, d) == Quad4_ref_vert[v * 2 + d]
  IN  [vert_lid \in 0..3 |->
        IF vert_lid \in 0..3 THEN
          RMul(RMul(RDiv(Rat(1, 1), Rat(4, 1)), ref_verts(vert_lid, 0)),
               RAdd(Rat(1, 1), RMul(xi_point[1], ref_verts(vert_lid, 1))))
        ELSE Unwritten]

\* Quad4::partial_eta_basis(partial_eta, xi_point): what the routine leaves in
\* an array of num_verts = 4 entries
Quad4_partial_eta_basis(xi_point) ==
  LET ref_verts(v, d) == Quad4_ref_vert[v * 2 + d]
  IN  [vert_lid \in 0..3 |->
        IF vert_lid \in 0..3 THEN
          RMul(RMul(RDiv(Rat(1, 1), Rat(4, 1)),
                    RAdd(Rat(1, 1),
                         RMul(xi_point[0], ref_verts(vert_lid, 0)))),
               ref_verts(vert_lid, 1))
        ELSE Unwritten]

\* Quad4::physical_position: the local array basis after the loops over the
\* vertices, then x_point(dim) = 0 and x_point(dim) += vertices(v, dim) *
\* basis(v) for v = 0..3; behind is what a read past the end of basis
\* and of vertices finds
Quad4_physical_position(xi_point, verts, behind) ==
  LET ref_verts(v, d) == Quad4_ref_vert[v * 2 + d]
      basis_a ==
        [vert_lid \in 0..3 |->
           IF vert_lid \in 0..3 THEN
             RMul(RMul(RDiv(Rat(1, 1), Rat(4, 1)),
                       RAdd(Rat(1, 1),
                            RMul(xi_point[0], ref_verts(vert_lid, 0)))),
                  RAdd(Rat(1, 1), RMul(xi_point[1], ref_verts(vert_lid, 1))))
           ELSE Unwritten]
  IN  FixedPositionSum(basis_a, verts, 4, 2, 3, behind)

\* --------------------------------------------------------------------------
\* Quad8 (src/src/element_types/elements2D.cpp)

\* Quad8::ref_vert, vertex by vertex, as listed
Quad8_ref_vert ==
  ArrayOf(<<
    Rat(-1, 1), Rat(-1, 1),
    Rat(1, 1), Rat(-1, 1),
    Rat(1, 1), Rat(1, 1),
    Rat(-1, 1), Rat(1, 1),
    Rat(0, 1), Rat(-1, 1),
    Rat(1, 1), Rat(0, 1),
    Rat(0, 1), Rat(1, 1),
    Rat(-1, 1), Rat(0, 1) >>)

\* Quad8::vert_to_node
Quad8_vert_to_node ==
  ArrayOf(<<0, 4, 24, 20, 2, 14, 23, 10>>)

\* Quad8::Quad8(): the assignments surface_to_dof_lid(s, i) = v of the
\* constructor as <<s, i, v>>, in the order they are executed, on
\* nsurfaces = 4 surfaces of stride 3
Quad8_ctor ==
  SurfaceTable(4, 3,
    << <<0, 0, 0>>, <<0, 1, 4>>, <<0, 2, 1>>, <<1, 0, 3>>,
       <<1, 1, 6>>, <<1, 2, 2>>, <<2, 0, 0>>, <<2, 1, 7>>,
       <<2, 2, 3>>, <<3, 0, 1>>, <<3, 1, 5>>, <<3, 2, 2>> >>)

\* Quad8::basis with the corner functions of Quad4 and no function for the
\* vertices on the edges
Quad8_basis_asQuad4(xi_point) ==
  [vert_lid \in 0..7 |->
     IF vert_lid \in 0..3 THEN Quad4_basis(xi_point)[vert_lid] ELSE Zero]

\* Quad8::basis(basis, xi_point): what the routine leaves in
\* an array of num_verts = 8 entries
Quad8_basis(xi_point) ==
  LET ref_verts(v, d) == Quad8_ref_vert[v * 2 + d]
  IN  [vert_lid \in 0..7 |->
        IF vert_lid \in { 5 + 2 * pass : pass \in 0..1 } THEN
          RMul(RMul(RDiv(Rat(1, 1), Rat(2, 1)),
                    RAdd(Rat(1, 1),
                         RMul(xi_point[0], ref_verts(vert_lid, 0)))),
               RSub(Rat(1, 1), RMul(xi_point[1], xi_point[1])))
        ELSE IF vert_lid \in { 4 + 2 * pass : pass \in 0..1 } THEN
          RMul(RMul(RDiv(Rat(1, 1), Rat(2, 1)),
                    RSub(Rat(1, 1), RMul(xi_point[0], xi_point[0]))),
               RAdd(Rat(1, 1), RMul(xi_point[1], ref_verts(vert_lid, 1))))
        ELSE IF vert_lid \in 0..3 THEN
          RMul(RMul(RMul(RDiv(Rat(1, 1), Rat(4, 1)),
                         RAdd(Rat(1, 1),
                              RMul(xi_point[0], ref_verts(vert_lid, 0)))),
                    RAdd(Rat(1, 1),
                         RMul(xi_point[1], ref_verts(vert_lid, 1)))),
               RSub(RAdd(RMul(xi_point[0], ref_verts(vert_lid, 0)),
                         RMul(xi_point[1], ref_verts(vert_lid, 1))),
                    Rat(1, 1)))
        ELSE Unwritten]

\* Quad8::partial_xi_basis(partial_xi, xi_point): what the routine leaves in
\* an array of num_verts = 8 entries
Quad8_partial_xi_basis(xi_point) ==
  LET ref_verts(v, d) == Quad8_ref_vert[v * 2 + d]
  IN  [vert_lid \in 0..7 |->
        IF vert_lid \in { 5 + 2 * pass : pass \in 0..1 } THEN
          RMul(RMul(RDiv(Rat(1, 1), Rat(2, 1)), ref_verts(vert_lid, 0)),
               RSub(Rat(1, 1), RMul(xi_point[1], xi_point[1])))
        ELSE IF vert_lid \in { 4 + 2 * pass : pass \in 0..1 } THEN
          RMul(RMul(Rat(-1, 1), xi_point[0]),
               RAdd(Rat(1, 1), RMul(ref_verts(vert_lid, 1), xi_point[1])))
        ELSE IF vert_lid \in 0..3 THEN
          RMul(RMul(RMul(RDiv(Rat(1, 1), Rat(4, 1)), ref_verts(vert_lid, 0)),
                    RAdd(Rat(1, 1),
                         RMul(ref_verts(vert_lid, 1), xi_point[1]))),
               RAdd(RMul(RMul(Rat(2, 1), ref_verts(vert_lid, 0)),
                         xi_point[0]),
                    RMul(ref_verts(vert_lid, 1), xi_point[1])))
        ELSE Unwritten]

\* Quad8::partial_eta_basis(partial_eta, xi_point): what the routine leaves in
\* an array of num_verts = 8 entries
Quad8_partial_eta_basis(xi_point) ==
  LET ref_verts(v, d) == Quad8_ref_vert[v * 2 + d]
  IN  [vert_lid \in 0..7 |->
        IF vert_lid \in { 5 + 2 * pass : pass \in 0..1 } THEN
          RMul(RMul(Rat(-1, 1),
                    RAdd(Rat(1, 1),
                         RMul(ref_verts(vert_lid, 0), xi_point[0]))),
               xi_point[1])
        ELSE IF vert_lid \in { 4 + 2 * pass : pass \in 0..1 } THEN
          RMul(RMul(RDiv(Rat(1, 1), Rat(2, 1)),
                    RSub(Rat(1, 1), RMul(xi_point[0], xi_point[0]))),
               ref_verts(vert_lid, 1))
        ELSE IF vert_lid \in 0..3 THEN
          RMul(RMul(RMul(RDiv(Rat(1, 1), Rat(4, 1)),
                         RAdd(Rat(1, 1),
                              RMul(ref_verts(vert_lid, 0), xi_point[0]))),
                    ref_verts(vert_lid, 1)),
               RAdd(RMul(ref_verts(vert_lid, 0), xi_point[0]),
                    RMul(RMul(Rat(2, 1), ref_verts(vert_lid, 1)),
                         xi_point[1])))
        ELSE Unwritten]

\* Quad8::physical_position: the local array basis after the loops over the
\* vertices, then x_point(dim) = 0 and x_point(dim) += vertices(v, dim) *
\* basis(v) for v = 0..7; behind is what a read past the end of basis
\* and of vertices finds
Quad8_physical_position(xi_point, verts, behind) ==
  LET ref_verts(v, d) == Quad8_ref_vert[v * 2 + d]
      basis_a ==
        [vert_lid \in 0..7 |->
           IF vert_lid \in { 5 + 2 * pass : pass \in 0..1 } THEN
             RMul(RMul(RDiv(Rat(1, 1), Rat(2, 1)),
                       RAdd(Rat(1, 1),
                            RMul(xi_point[0], ref_verts(vert_lid, 0)))),
                  RSub(Rat(1, 1), RMul(xi_point[1], xi_point[1])))
           ELSE IF vert_lid \in { 4 + 2 * pass : pass \in 0..1 } THEN
             RMul(RMul(RDiv(Rat(1, 1), Rat(2, 1)),
                       RSub(Rat(1, 1), RMul(xi_point[0], xi_point[0]))),
                  RAdd(Rat(1, 1), RMul(xi_point[1], ref_verts(vert_lid, 1))))
           ELSE IF vert_lid \in 0..3 THEN
             RMul(RMul(RMul(RDiv(Rat(1, 1), Rat(4, 1)),
                            RAdd(Rat(1, 1),
                                 RMul(xi_point[0], ref_verts(vert_lid, 0)))),
                       RAdd(Rat(1, 1),
                            RMul(xi_point[1], ref_verts(vert_lid, 1)))),
                  RSub(RAdd(RMul(xi_point[0], ref_verts(vert_lid, 0)),
                            RMul(xi_point[1], ref_verts(vert_lid, 1))),
                       Rat(1, 1)))
           ELSE Unwritten]
  IN  FixedPositionSum(basis_a, verts, 8, 2, 7, behind)

\* --------------------------------------------------------------------------
\* Quad12 (src/src/element_types/elements2D.cpp)

\* Quad12::ref_vert, vertex by vertex, as listed
Quad12_ref_vert ==
  ArrayOf(<<
    Rat(-1, 1), Rat(-1, 1),
    Rat(1, 1), Rat(-1, 1),
    Rat(1, 1), Rat(1, 1),
    Rat(-1, 1), Rat(1, 1),
    Rat(-1, 3), Rat(-1, 1),
    Rat(1, 3), Rat(-1, 1),
    Rat(1, 3), Rat(1, 1),
    Rat(-1, 3), Rat(1, 1),
    Rat(-1, 1), Rat(-1, 3),
    Rat(1, 1), Rat(-1, 3),
    Rat(1, 1), Rat(1, 3),
    Rat(-1, 1), Rat(1, 3) >>)

\* Quad12::vert_to_node
Quad12_vert_to_node ==
  ArrayOf(<<0, 6, 48, 42, 2, 4, 46, 44, 14, 20, 34, 28>>)

\* Quad12::Quad12(): the assignments surface_to_dof_lid(s, i) = v of the
\* constructor as <<s, i, v>>, in the order they are executed, on
\* nsurfaces = 4 surfaces of stride 4
Quad12_ctor ==
  SurfaceTable(4, 4,
    << <<0, 0, 0>>, <<0, 1, 4>>, <<0, 2, 5>>, <<0, 3, 1>>,
       <<1, 0, 3>>, <<1, 1, 7>>, <<1, 2, 6>>, <<1, 3, 2>>,
       <<2, 0, 0>>, <<2, 1, 8>>, <<2, 2, 11>>, <<2, 3, 3>>,
       <<3, 0, 1>>, <<3, 1, 9>>, <<3, 2, 10>>, <<3, 3, 2>> >>)

\* Quad12::basis(basis, xi_point): what the routine leaves in
\* an array of num_verts = 12 entries
Quad12_basis(xi_point) ==
  LET ref_verts(v, d) == Quad12_ref_vert[v * 2 + d]
  IN  [vert_lid \in 0..11 |->
        IF vert_lid \in 8..11 THEN
          RMul(RMul(RMul(RDiv(Rat(9, 1), Rat(32, 1)),
                         RAdd(Rat(1, 1),
                              RMul(xi_point[0], ref_verts(vert_lid, 0)))),
                    RSub(Rat(1, 1), RMul(xi_point[1], xi_point[1]))),
               RAdd(Rat(1, 1),
                    RMul(RMul(Rat(9, 1), xi_point[1]),
                         ref_verts(vert_lid, 1))))
        ELSE IF vert_lid \in 4..7 THEN
          RMul(RMul(RMul(RDiv(Rat(9, 1), Rat(32, 1)),
                         RSub(Rat(1, 1), RMul(xi_point[0], xi_point[0]))),
                    RAdd(Rat(1, 1),
                         RMul(xi_point[1], ref_verts(vert_lid, 1)))),
               RAdd(Rat(1, 1),
                    RMul(RMul(Rat(9, 1), xi_point[0]),
                         ref_verts(vert_lid, 0))))
        ELSE IF vert_lid \in 0..3 THEN
          RMul(RMul(RMul(RDiv(Rat(1, 1), Rat(32, 1)),
                         RAdd(Rat(1, 1),
                              RMul(ref_verts(vert_lid, 0), xi_point[0]))),
                    RAdd(Rat(1, 1),
                         RMul(ref_verts(vert_lid, 1), xi_point[1]))),
               RSub(RMul(Rat(9, 1),
                         RAdd(RMul(xi_point[0], xi_point[0]),
                              RMul(xi_point[1], xi_point[1]))),
                    Rat(10, 1)))
        ELSE Unwritten]

\* Quad12::partial_xi_basis(partial_xi, xi_point): what the routine leaves in
\* an array of num_verts = 12 entries
Quad12_partial_xi_basis(xi_point) ==
  LET ref_verts(v, d) == Quad12_ref_vert[v * 2 + d]
  IN  [vert_lid \in 0..11 |->
        IF vert_lid \in 8..11 THEN
          RMul(RMul(RMul(RDiv(Rat(9, 1), Rat(32, 1)), ref_verts(vert_lid, 0)),
                    RSub(Rat(1, 1), RMul(xi_point[1], xi_point[1]))),
               RAdd(Rat(1, 1),
                    RMul(RMul(Rat(9, 1), xi_point[1]),
                         ref_verts(vert_lid, 1))))
        ELSE IF vert_lid \in 4..7 THEN
          RMul(RMul(RDiv(Rat(9, 1), Rat(32, 1)),
                    RAdd(Rat(1, 1),
                         RMul(xi_point[1], ref_verts(vert_lid, 1)))),
               RSub(RMul(RMul(Rat(9, 1), ref_verts(vert_lid, 0)),
                         RSub(Rat(1, 1),
                              RMul(RMul(Rat(3, 1), xi_point[0]),
                                   xi_point[0]))),
                    RMul(Rat(2, 1), xi_point[0])))
        ELSE IF vert_lid \in 0..3 THEN
          RMul(RMul(RDiv(Rat(1, 1), Rat(32, 1)),
                    RAdd(Rat(1, 1),
                         RMul(xi_point[1], ref_verts(vert_lid, 1)))),
               RSub(RAdd(RMul(RMul(Rat(9, 1), ref_verts(vert_lid, 0)),
                              RAdd(RMul(xi_point[0], xi_point[0]),
                                   RMul(xi_point[1], xi_point[1]))),
                         RMul(RMul(Rat(18, 1), xi_point[0]),
                              RAdd(Rat(1, 1),
                                   RMul(xi_point[0],
                                        ref_verts(vert_lid, 0))))),
                    RMul(Rat(10, 1), ref_verts(vert_lid, 0))))
        ELSE Unwritten]

\* Quad12::partial_eta_basis(partial_eta, xi_point): what the routine leaves in
\* an array of num_verts = 12 entries
Quad12_partial_eta_basis(xi_point) ==
  LET ref_verts(v, d) == Quad12_ref_vert[v * 2 + d]
  IN  [vert_lid \in 0..11 |->
        IF vert_lid \in 8..11 THEN
          RMul(RMul(RDiv(Rat(9, 1), Rat(32, 1)),
                    RAdd(Rat(1, 1),
                         RMul(xi_point[0], ref_verts(vert_lid, 0)))),
               RSub(RMul(RMul(Rat(9, 1), ref_verts(vert_lid, 1)),
                         RSub(Rat(1, 1),
                              RMul(RMul(Rat(3, 1), xi_point[1]),
                                   xi_point[1]))),
                    RMul(Rat(2, 1), xi_point[1])))
        ELSE IF vert_lid \in 4..7 THEN
          RMul(RMul(RMul(RDiv(Rat(9, 1), Rat(32, 1)),
                         RSub(Rat(1, 1), RMul(xi_point[0], xi_point[0]))),
                    RAdd(Rat(1, 1),
                         RMul(RMul(Rat(9, 1), xi_point[0]),
                              ref_verts(vert_lid, 0)))),
               ref_verts(vert_lid, 1))
        ELSE IF vert_lid \in 0..3 THEN
          RMul(RMul(RDiv(Rat(1, 1), Rat(32, 1)),
                    RAdd(Rat(1, 1),
                         RMul(xi_point[0], ref_verts(vert_lid, 0)))),
               RSub(RAdd(RMul(RMul(Rat(9, 1), ref_verts(vert_lid, 1)),
                              RAdd(RMul(xi_point[0], xi_point[0]),
                                   RMul(xi_point[1], xi_point[1]))),
                         RMul(RMul(Rat(18, 1), xi_point[1]),
                              RAdd(Rat(1, 1),
                                   RMul(xi_point[1],
                                        ref_verts(vert_lid, 1))))),
                    RMul(Rat(10, 1), ref_verts(vert_lid, 1))))
        ELSE Unwritten]

\* Quad12::physical_position: the local array basis after the loops over the
\* vertices, then x_point(dim) = 0 and x_point(dim) += vertices(v, dim) *
\* basis(v) for v = 0..11; behind is what a read past the end of basis
\* and of vertices finds
Quad12_physical_position(xi_point, verts, behind) ==
  LET ref_verts(v, d) == Quad12_ref_vert[v * 2 + d]
      basis_a ==
        [vert_lid \in 0..11 |->
           IF vert_lid \in 8..11 THEN
             RMul(RMul(RMul(RDiv(Rat(9, 1), Rat(32, 1)),
                            RAdd(Rat(1, 1),
                                 RMul(xi_point[0], ref_verts(vert_lid, 0)))),
                       RSub(Rat(1, 1), RMul(xi_point[1], xi_point[1]))),
                  RAdd(Rat(1, 1),
                       RMul(RMul(Rat(9, 1), xi_point[1]),
                            ref_verts(vert_lid, 1))))
           ELSE IF vert_lid \in 4..7 THEN
             RMul(RMul(RMul(RDiv(Rat(9, 1), Rat(32, 1)),
                            RSub(Rat(1, 1), RMul(xi_point[0], xi_point[0]))),
                       RAdd(Rat(1, 1),
                            RMul(xi_point[1], ref_verts(vert_lid, 1)))),
                  RAdd(Rat(1, 1),
                       RMul(RMul(Rat(9, 1), xi_point[0]),
                            ref_verts(vert_lid, 0))))
           ELSE IF vert_lid \in 0..3 THEN
             RMul(RMul(RMul(RDiv(Rat(1, 1), Rat(32, 1)),
                            RAdd(Rat(1, 1),
                                 RMul(ref_verts(vert_lid, 0), xi_point[0]))),
                       RAdd(Rat(1, 1),
                            RMul(ref_verts(vert_lid, 1), xi_point[1]))),
                  RSub(RMul(Rat(9, 1),
                            RAdd(RMul(xi_point[0], xi_point[0]),
                                 RMul(xi_point[1], xi_point[1]))),
                       Rat(10, 1)))
           ELSE Unwritten]
  IN  FixedPositionSum(basis_a, verts, 12, 2, 11, behind)

\* --------------------------------------------------------------------------
\* Hex8 (src/src/element_types/elements3D.cpp)

\* Hex8::ref_vert, vertex by vertex, as listed
Hex8_ref_vert ==
  ArrayOf(<<
    Rat(-1, 1), Rat(-1, 1), Rat(-1, 1),
    Rat(1, 1), Rat(-1, 1), Rat(-1, 1),
    Rat(-1, 1), Rat(1, 1), Rat(-1, 1),
    Rat(1, 1), Rat(1, 1), Rat(-1, 1),
    Rat(-1, 1), Rat(-1, 1), Rat(1, 1),
    Rat(1, 1), Rat(-1, 1), Rat(1, 1),
    Rat(-1, 1), Rat(1, 1), Rat(1, 1),
    Rat(1, 1), Rat(1, 1), Rat(1, 1) >>)

\* Hex8::vert_to_node
Hex8_vert_to_node ==
  ArrayOf(<<0, 2, 6, 8, 18, 20, 24, 24>>)

\* Hex8::Hex8(): the assignments surface_to_dof_lid(s, i) = v of the
\* constructor as <<s, i, v>>, in the order they are executed, on
\* nsurfaces = 6 surfaces of stride 4
Hex8_ctor ==
  SurfaceTable(6, 4,
    << <<0, 0, 0>>, <<0, 1, 1>>, <<0, 2, 2>>, <<0, 3, 3>>,
       <<1, 0, 4>>, <<1, 1, 5>>, <<1, 2, 6>>, <<1, 3, 7>>,
       <<2, 0, 0>>, <<2, 1, 1>>, <<2, 2, 4>>, <<2, 3, 5>>,
       <<3, 0, 2>>, <<3, 1, 3>>, <<3, 2, 6>>, <<3, 3, 7>>,
       <<4, 0, 0>>, <<4, 1, 2>>, <<4, 2, 4>>, <<4, 3, 6>>,
       <<5, 0, 1>>, <<5, 1, 3>>, <<5, 2, 5>>, <<5, 3, 7>> >>)

\* Hex8::basis(basis, xi_point): what the routine leaves in
\* an array of num_verts = 8 entries
Hex8_basis(xi_point) ==
  LET ref_verts(v, d) == Hex8_ref_vert[v * 3 + d]
  IN  [vert_lid \in 0..7 |->
        IF vert_lid \in 0..7 THEN
          RMul(RMul(RMul(RDiv(Rat(1, 1), Rat(8, 1)),
                         RAdd(Rat(1, 1),
                              RMul(xi_point[0], ref_verts(vert_lid, 0)))),
                    RAdd(Rat(1, 1),
                         RMul(xi_point[1], ref_verts(vert_lid, 1)))),
               RAdd(Rat(1, 1), RMul(xi_point[2], ref_verts(vert_lid, 2))))
        ELSE Unwritten]

\* Hex8::partial_xi_basis(partial_xi, xi_point): what the routine leaves in
\* an array of num_verts = 8 entries
Hex8_partial_xi_basis(xi_point) ==
  LET ref_verts(v, d) == Hex8_ref_vert[v * 3 + d]
  IN  [vert_lid \in 0..7 |->
        IF vert_lid \in 0..7 THEN
          RMul(RMul(RMul(RDiv(Rat(1, 1), Rat(8, 1)), ref_verts(vert_lid, 0)),
                    RAdd(Rat(1, 1),
                         RMul(xi_point[1], ref_verts(vert_lid, 1)))),
               RAdd(Rat(1, 1), RMul(xi_point[2], ref_verts(vert_lid, 2))))
        ELSE Unwritten]

\* Hex8::partial_eta_basis(partial_eta, xi_point): what the routine leaves in
\* an array of num_verts = 8 entries
Hex8_partial_eta_basis(xi_point) ==
  LET ref_verts(v, d) == Hex8_ref_vert[v * 3 + d]
  IN  [vert_lid \in 0..7 |->
        IF vert_lid \in 0..7 THEN
          RMul(RMul(RMul(RDiv(Rat(1, 1), Rat(8, 1)),
                         RAdd(Rat(1, 1),
                              RMul(xi_point[0], ref_verts(vert_lid, 0)))),
                    ref_verts(vert_lid, 1)),
               RAdd(Rat(1, 1), RMul(xi_point[2], ref_verts(vert_lid, 2))))
        ELSE Unwritten]

\* Hex8::partial_mu_basis(partial_mu, xi_point): what the routine leaves in
\* an array of num_verts = 8 entries
Hex8_partial_mu_basis(xi_point) ==
  LET ref_verts(v, d) == Hex8_ref_vert[v * 3 + d]
  IN  [vert_lid \in 0..7 |->
        IF vert_lid \in 0..7 THEN
          RMul(RMul(RMul(RDiv(Rat(1, 1), Rat(8, 1)),
                         RAdd(Rat(1, 1),
                              RMul(xi_point[0], ref_verts(vert_lid, 0)))),
                    RAdd(Rat(1, 1),
                         RMul(xi_point[1], ref_verts(vert_lid, 1)))),
               ref_verts(vert_lid, 2))
        ELSE Unwritten]

\* Hex8::physical_position: the local array basis after the loops over the
\* vertices, then x_point(dim) = 0 and x_point(dim) += vertices(v, dim) *
\* basis(v) for v = 0..7; behind is what a read past the end of basis
\* and of vertices finds
Hex8_physical_position(xi_point, verts, behind) ==
  LET ref_verts(v, d) == Hex8_ref_vert[v * 3 + d]
      basis_a ==
        [vert_lid \in 0..7 |->
           IF vert_lid \in 0..7 THEN
             RMul(RMul(RMul(RDiv(Rat(1, 1), Rat(8, 1)),
                            RAdd(Rat(1, 1),
                                 RMul(xi_point[0], ref_verts(vert_lid, 0)))),
                       RAdd(Rat(1, 1),
                            RMul(xi_point[1], ref_verts(vert_lid, 1)))),
                  RAdd(Rat(1, 1), RMul(xi_point[2], ref_verts(vert_lid, 2))))
           ELSE Unwritten]
  IN  FixedPositionSum(basis_a, verts, 8, 3, 7, behind)

\* --------------------------------------------------------------------------
\* Hex20 (src/src/element_types/elements3D.cpp)

\* Hex20::ref_vert, vertex by vertex, as listed
Hex20_ref_vert ==
  ArrayOf(<<
    Rat(-1, 1), Rat(-1, 1), Rat(-1, 1),
    Rat(1, 1), Rat(-1, 1), Rat(-1, 1),
    Rat(1, 1), Rat(1, 1), Rat(-1, 1),
    Rat(-1, 1), Rat(1, 1), Rat(-1, 1),
    Rat(-1, 1), Rat(-1, 1), Rat(1, 1),
    Rat(1, 1), Rat(-1, 1), Rat(1, 1),
    Rat(1, 1), Rat(1, 1), Rat(1, 1),
    Rat(-1, 1), Rat(1, 1), Rat(1, 1),
    Rat(0, 1), Rat(-1, 1), Rat(-1, 1),
    Rat(1, 1), Rat(0, 1), Rat(-1, 1),
    Rat(0, 1), Rat(1, 1), Rat(-1, 1),
    Rat(-1, 1), Rat(0, 1), Rat(-1, 1),
    Rat(0, 1), Rat(-1, 1), Rat(1, 1),
    Rat(1, 1), Rat(0, 1), Rat(1, 1),
    Rat(0, 1), Rat(1, 1), Rat(1, 1),
    Rat(-1, 1), Rat(0, 1), Rat(1, 1),
    Rat(-1, 1), Rat(-1, 1), Rat(0, 1),
    Rat(1, 1), Rat(-1, 1), Rat(0, 1),
    Rat(1, 1), Rat(1, 1), Rat(0, 1),
    Rat(-1, 1), Rat(1, 1), Rat(0, 1) >>)

\* Hex20::vert_to_node
Hex20_vert_to_node ==
  ArrayOf(<<0, 4, 24, 20, 100, 104, 124, 120, 2, 14, 22, 10, 102, 114, 122,
            110, 50, 54, 74, 70>>)

\* Hex20::Hex20(): the assignments surface_to_dof_lid(s, i) = v of the
\* constructor as <<s, i, v>>, in the order they are executed, on
\* nsurfaces = 6 surfaces of stride 8
Hex20_ctor ==
  SurfaceTable(6, 8,
    << <<0, 0, 0>>, <<0, 1, 8>>, <<0, 2, 1>>, <<0, 3, 11>>,
       <<0, 4, 9>>, <<0, 5, 3>>, <<0, 6, 10>>, <<0, 7, 2>>,
       <<1, 0, 4>>, <<1, 1, 12>>, <<1, 2, 5>>, <<1, 3, 15>>,
       <<1, 4, 13>>, <<1, 5, 7>>, <<1, 6, 14>>, <<1, 7, 6>>,
       <<3, 0, 0>>, <<3, 1, 8>>, <<3, 2, 1>>, <<3, 3, 16>>,
       <<3, 4, 17>>, <<3, 5, 4>>, <<3, 6, 12>>, <<3, 7, 5>>,
       <<3, 0, 3>>, <<3, 1, 10>>, <<3, 2, 2>>, <<3, 3, 19>>,
       <<3, 4, 18>>, <<3, 5, 7>>, <<3, 6, 14>>, <<3, 7, 6>>,
       <<4, 0, 0>>, <<4, 1, 11>>, <<4, 2, 3>>, <<4, 3, 16>>,
       <<4, 4, 19>>, <<4, 5, 4>>, <<4, 6, 15>>, <<4, 7, 7>>,
       <<5, 0, 1>>, <<5, 1, 9>>, <<5, 2, 2>>, <<5, 3, 17>>,
       <<5, 4, 18>>, <<5, 5, 5>>, <<5, 6, 13>>, <<5, 7, 6>> >>)

\* Hex20::basis(basis, xi_point): what the routine leaves in
\* an array of num_verts = 20 entries
Hex20_basis(xi_point) ==
  LET ref_verts(v, d) == Hex20_ref_vert[v * 3 + d]
  IN  [vert_lid \in 0..19 |->
        IF vert_lid \in { 9 + 2 * pass : pass \in 0..3 } THEN
          RMul(RMul(RMul(RDiv(Rat(1, 1), Rat(4, 1)),
                         RAdd(Rat(1, 1),
                              RMul(xi_point[0], ref_verts(vert_lid, 0)))),
                    RSub(Rat(1, 1), RMul(xi_point[1], xi_point[1]))),
               RAdd(Rat(1, 1), RMul(xi_point[2], ref_verts(vert_lid, 2))))
        ELSE IF vert_lid \in 16..19 THEN
          RMul(RMul(RMul(RDiv(Rat(1, 1), Rat(4, 1)),
                         RAdd(Rat(1, 1),
                              RMul(xi_point[0], ref_verts(vert_lid, 0)))),
                    RAdd(Rat(1, 1),
                         RMul(xi_point[1], ref_verts(vert_lid, 1)))),
               RSub(Rat(1, 1), RMul(xi_point[2], xi_point[2])))
        ELSE IF vert_lid \in { 8 + 2 * pass : pass \in 0..3 } THEN
          RMul(RMul(RMul(RDiv(Rat(1, 1), Rat(4, 1)),
                         RSub(Rat(1, 1), RMul(xi_point[0], xi_point[0]))),
                    RAdd(Rat(1, 1),
                         RMul(xi_point[1], ref_verts(vert_lid, 1)))),
               RAdd(Rat(1, 1), RMul(xi_point[2], ref_verts(vert_lid, 2))))
        ELSE IF vert_lid \in 0..7 THEN
          RMul(RMul(RMul(RMul(RDiv(Rat(1, 1), Rat(8, 1)),
                              RAdd(Rat(1, 1),
                                   RMul(xi_point[0],
                                        ref_verts(vert_lid, 0)))),
                         RAdd(Rat(1, 1),
                              RMul(xi_point[1], ref_verts(vert_lid, 1)))),
                    RAdd(Rat(1, 1),
                         RMul(xi_point[2], ref_verts(vert_lid, 2)))),
               RSub(RAdd(RAdd(RMul(xi_point[0], ref_verts(vert_lid, 0)),
                              RMul(xi_point[1], ref_verts(vert_lid, 1))),
                         RMul(xi_point[2], ref_verts(vert_lid, 2))),
                    Rat(2, 1)))
        ELSE Unwritten]

\* Hex20::partial_xi_basis(partial_xi, xi_point): what the routine leaves in
\* an array of num_verts = 20 entries
Hex20_partial_xi_basis(xi_point) ==
  LET ref_verts(v, d) == Hex20_ref_vert[v * 3 + d]
  IN  [vert_lid \in 0..19 |->
        IF vert_lid \in 16..19 THEN
          RMul(RMul(RMul(RDiv(Rat(1, 1), Rat(4, 1)), ref_verts(vert_lid, 0)),
                    RSub(Rat(1, 1), RMul(xi_point[1], xi_point[1]))),
               RAdd(Rat(1, 1), RMul(xi_point[2], ref_verts(vert_lid, 2))))
        ELSE IF vert_lid \in { 9 + 2 * pass : pass \in 0..3 } THEN
          RMul(RMul(RMul(RDiv(Rat(1, 1), Rat(4, 1)), ref_verts(vert_lid, 0)),
                    RAdd(Rat(1, 1),
                         RMul(xi_point[1], ref_verts(vert_lid, 1)))),
               RSub(Rat(1, 1), RMul(xi_point[2], xi_point[2])))
        ELSE IF vert_lid \in { 8 + 2 * pass : pass \in 0..3 } THEN
          RMul(RMul(RMul(RDiv(Rat(-1, 1), Rat(2, 1)), xi_point[0]),
                    RAdd(Rat(1, 1),
                         RMul(xi_point[1], ref_verts(vert_lid, 1)))),
               RAdd(Rat(1, 1), RMul(xi_point[2], ref_verts(vert_lid, 2))))
        ELSE IF vert_lid \in 0..7 THEN
          RMul(RMul(RMul(RMul(RDiv(Rat(1, 1), Rat(8, 1)),
                              ref_verts(vert_lid, 0)),
                         RAdd(Rat(1, 1),
                              RMul(xi_point[1], ref_verts(vert_lid, 1)))),
                    RAdd(Rat(1, 1),
                         RMul(xi_point[2], ref_verts(vert_lid, 2)))),
               RSub(RAdd(RAdd(RMul(Rat(2, 1),
                                   RMul(xi_point[0],
                                        ref_verts(vert_lid, 0))),
                              RMul(xi_point[1], ref_verts(vert_lid, 1))),
                         RMul(xi_point[2], ref_verts(vert_lid, 2))),
                    Rat(1, 1)))
        ELSE Unwritten]

\* Hex20::partial_eta_basis(partial_eta, xi_point): what the routine leaves in
\* an array of num_verts = 20 entries
Hex20_partial_eta_basis(xi_point) ==
  LET ref_verts(v, d) == Hex20_ref_vert[v * 3 + d]
  IN  [vert_lid \in 0..19 |->
        IF vert_lid \in 16..19 THEN
          RMul(RMul(RMul(RDiv(Rat(1, 1), Rat(4, 1)),
                         RAdd(Rat(1, 1),
                              RMul(xi_point[0], ref_verts(vert_lid, 0)))),
                    ref_verts(vert_lid, 1)),
               RSub(Rat(1, 1), RMul(xi_point[2], xi_point[2])))
        ELSE IF vert_lid \in { 9 + 2 * pass : pass \in 0..3 } THEN
          RMul(RMul(RMul(RDiv(Rat(-1, 1), Rat(2, 1)),
                         RAdd(Rat(1, 1),
                              RMul(xi_point[0], ref_verts(vert_lid, 0)))),
                    xi_point[1]),
               RAdd(Rat(1, 1), RMul(xi_point[2], ref_verts(vert_lid, 2))))
        ELSE IF vert_lid \in { 8 + 2 * pass : pass \in 0..3 } THEN
          RMul(RMul(RMul(RDiv(Rat(1, 1), Rat(4, 1)),
                         RSub(Rat(1, 1), RMul(xi_point[0], xi_point[0]))),
                    ref_verts(vert_lid, 1)),
               RAdd(Rat(1, 1), RMul(xi_point[2], ref_verts(vert_lid, 2))))
        ELSE IF vert_lid \in 0..7 THEN
          RMul(RMul(RMul(RMul(RDiv(Rat(1, 1), Rat(8, 1)),
                              RAdd(Rat(1, 1),
                                   RMul(xi_point[0],
                                        ref_verts(vert_lid, 0)))),
                         ref_verts(vert_lid, 1)),
                    RAdd(Rat(1, 1),
                         RMul(xi_point[2], ref_verts(vert_lid, 2)))),
               RSub(RAdd(RAdd(RMul(xi_point[0], ref_verts(vert_lid, 0)),
                              RMul(RMul(Rat(2, 1), xi_point[1]),
                                   ref_verts(vert_lid, 1))),
                         RMul(xi_point[2], ref_verts(vert_lid, 2))),
                    Rat(1, 1)))
        ELSE Unwritten]

\* Hex20::partial_mu_basis(partial_mu, xi_point): what the routine leaves in
\* an array of num_verts = 20 entries
Hex20_partial_mu_basis(xi_point) ==
  LET ref_verts(v, d) == Hex20_ref_vert[v * 3 + d]
  IN  [vert_lid \in 0..19 |->
        IF vert_lid \in 16..19 THEN
          RMul(RMul(RMul(RDiv(Rat(-1, 1), Rat(2, 1)),
                         RAdd(Rat(1, 1),
                              RMul(xi_point[0], ref_verts(vert_lid, 0)))),
                    RAdd(Rat(1, 1),
                         RMul(xi_point[1], ref_verts(vert_lid, 1)))),
               xi_point[2])
        ELSE IF vert_lid \in { 9 + 2 * pass : pass \in 0..3 } THEN
          RMul(RMul(RMul(RDiv(Rat(1, 1), Rat(4, 1)),
                         RAdd(Rat(1, 1),
                              RMul(xi_point[0], ref_verts(vert_lid, 0)))),
                    RSub(Rat(1, 1), RMul(xi_point[1], xi_point[1]))),
               ref_verts(vert_lid, 2))
        ELSE IF vert_lid \in { 8 + 2 * pass : pass \in 0..3 } THEN
          RMul(RMul(RMul(RDiv(Rat(1, 1), Rat(4, 1)),
                         RSub(Rat(1, 1), RMul(xi_point[0], xi_point[0]))),
                    RAdd(Rat(1, 1),
                         RMul(xi_point[1], ref_verts(vert_lid, 1)))),
               ref_verts(vert_lid, 2))
        ELSE IF vert_lid \in 0..7 THEN
          RMul(RMul(RMul(RMul(RDiv(Rat(1, 1), Rat(8, 1)),
                              RAdd(Rat(1, 1),
                                   RMul(xi_point[0],
                                        ref_verts(vert_lid, 0)))),
                         RAdd(Rat(1, 1),
                              RMul(xi_point[1], ref_verts(vert_lid, 1)))),
                    ref_verts(vert_lid, 2)),
               RSub(RAdd(RAdd(RMul(xi_point[0], ref_verts(vert_lid, 0)),
                              RMul(xi_point[1], ref_verts(vert_lid, 1))),
                         RMul(RMul(Rat(2, 1), xi_point[2]),
                              ref_verts(vert_lid, 2))),
                    Rat(1, 1)))
        ELSE Unwritten]

\* Hex20::physical_position: the local array basis after the loops over the
\* vertices, then x_point(dim) = 0 and x_point(dim) += vertices(v, dim) *
\* basis(v) for v = 0..19; behind is what a read past the end of basis
\* and of vertices finds
Hex20_physical_position(xi_point, verts, behind) ==
  LET ref_verts(v, d) == Hex20_ref_vert[v * 3 + d]
      basis_a ==
        [vert_lid \in 0..19 |->
           IF vert_lid \in { 9 + 2 * pass : pass \in 0..3 } THEN
             RMul(RMul(RMul(RDiv(Rat(1, 1), Rat(4, 1)),
                            RAdd(Rat(1, 1),
                                 RMul(xi_point[0], ref_verts(vert_lid, 0)))),
                       RSub(Rat(1, 1), RMul(xi_point[1], xi_point[1]))),
                  RAdd(Rat(1, 1), RMul(xi_point[2], ref_verts(vert_lid, 2))))
           ELSE IF vert_lid \in 16..19 THEN
             RMul(RMul(RMul(RDiv(Rat(1, 1), Rat(4, 1)),
                            RAdd(Rat(1, 1),
                                 RMul(xi_point[0], ref_verts(vert_lid, 0)))),
                       RAdd(Rat(1, 1),
                            RMul(xi_point[1], ref_verts(vert_lid, 1)))),
                  RSub(Rat(1, 1), RMul(xi_point[2], xi_point[2])))
           ELSE IF vert_lid \in { 8 + 2 * pass : pass \in 0..3 } THEN
             RMul(RMul(RMul(RDiv(Rat(1, 1), Rat(4, 1)),
                            RSub(Rat(1, 1), RMul(xi_point[0], xi_point[0]))),
                       RAdd(Rat(1, 1),
                            RMul(xi_point[1], ref_verts(vert_lid, 1)))),
                  RAdd(Rat(1, 1), RMul(xi_point[2], ref_verts(vert_lid, 2))))
           ELSE IF vert_lid \in 0..7 THEN
             RMul(RMul(RMul(RMul(RDiv(Rat(1, 1), Rat(8, 1)),
                                 RAdd(Rat(1, 1),
                                      RMul(xi_point[0],
                                           ref_verts(vert_lid, 0)))),
                            RAdd(Rat(1, 1),
                                 RMul(xi_point[1], ref_verts(vert_lid, 1)))),
                       RAdd(Rat(1, 1),
                            RMul(xi_point[2], ref_verts(vert_lid, 2)))),
                  RSub(RAdd(RAdd(RMul(xi_point[0], ref_verts(vert_lid, 0)),
                                 RMul(xi_point[1], ref_verts(vert_lid, 1))),
                            RMul(xi_point[2], ref_verts(vert_lid, 2))),
                       Rat(2, 1)))
           ELSE Unwritten]
  IN  FixedPositionSum(basis_a, verts, 20, 3, 19, behind)

\* --------------------------------------------------------------------------
\* Hex32 (src/src/element_types/elements3D.cpp)

\* Hex32::ref_vert, vertex by vertex, as listed
Hex32_ref_vert ==
  ArrayOf(<<
    Rat(-1, 1), Rat(-1, 1), Rat(-1, 1),
    Rat(1, 1), Rat(-1, 1), Rat(-1, 1),
    Rat(1, 1), Rat(1, 1), Rat(-1, 1),
    Rat(-1, 1), Rat(1, 1), Rat(-1, 1),
    Rat(-1, 1), Rat(-1, 1), Rat(1, 1),
    Rat(1, 1), Rat(-1, 1), Rat(1, 1),
    Rat(1, 1), Rat(1, 1), Rat(1, 1),
    Rat(-1, 1), Rat(1, 1), Rat(1, 1),
    Rat(-1, 1), Rat(-1, 3), Rat(-1, 1),
    Rat(1, 1), Rat(-1, 3), Rat(-1, 1),
    Rat(1, 1), Rat(1, 3), Rat(-1, 1),
    Rat(-1, 1), Rat(1, 3), Rat(-1, 1),
    Rat(-1, 1), Rat(-1, 3), Rat(1, 1),
    Rat(1, 1), Rat(-1, 3), Rat(1, 1),
    Rat(1, 1), Rat(1, 3), Rat(1, 1),
    Rat(-1, 1), Rat(1, 3), Rat(1, 1),
    Rat(-1, 3), Rat(-1, 1), Rat(-1, 1),
    Rat(1, 3), Rat(-1, 1), Rat(-1, 1),
    Rat(1, 3), Rat(1, 1), Rat(-1, 1),
    Rat(-1, 3), Rat(1, 1), Rat(-1, 1),
    Rat(-1, 3), Rat(-1, 1), Rat(1, 1),
    Rat(1, 3), Rat(-1, 1), Rat(1, 1),
    Rat(1, 3), Rat(1, 1), Rat(1, 1),
    Rat(-1, 3), Rat(1, 1), Rat(1, 1),
    Rat(-1, 1), Rat(-1, 1), Rat(-1, 3),
    Rat(1, 1), Rat(-1, 1), Rat(-1, 3),
    Rat(1, 1), Rat(1, 1), Rat(-1, 3),
    Rat(-1, 1), Rat(1, 1), Rat(-1, 3),
    Rat(-1, 1), Rat(-1, 1), Rat(1, 3),
    Rat(1, 1), Rat(-1, 1), Rat(1, 3),
    Rat(1, 1), Rat(1, 1), Rat(1, 3),
    Rat(-1, 1), Rat(1, 1), Rat(1, 3) >>)

\* Hex32::vert_to_node
Hex32_vert_to_node ==
  ArrayOf(<<0, 6, 48, 42, 294, 300, 342, 336, 14, 20, 32, 28, 308, 314, 328,
            322, 2, 4, 46, 44, 296, 298, 340, 338, 98, 104, 146, 140, 196,
            202, 244, 298>>)

\* Hex32::Hex32(): the assignments surface_to_dof_lid(s, i) = v of the
\* constructor as <<s, i, v>>, in the order they are executed, on
\* nsurfaces = 6 surfaces of stride 12
Hex32_ctor ==
  SurfaceTable(6, 12,
    << <<0, 0, 0>>, <<0, 1, 16>>, <<0, 2, 17>>, <<0, 3, 1>>,
       <<0, 4, 8>>, <<0, 5, 9>>, <<0, 6, 11>>, <<0, 7, 10>>,
       <<0, 8, 3>>, <<0, 9, 19>>, <<0, 10, 18>>, <<0, 11, 2>>,
       <<1, 0, 4>>, <<1, 1, 20>>, <<1, 2, 21>>, <<1, 3, 5>>,
       <<1, 4, 12>>, <<1, 5, 13>>, <<1, 6, 15>>, <<1, 7, 14>>,
       <<1, 8, 7>>, <<1, 9, 23>>, <<1, 10, 22>>, <<1, 11, 6>>,
       <<2, 0, 0>>, <<2, 1, 16>>, <<2, 2, 17>>, <<2, 3, 1>>,
       <<2, 4, 24>>, <<2, 5, 25>>, <<2, 6, 28>>, <<2, 7, 29>>,
       <<2, 8, 4>>, <<2, 9, 20>>, <<2, 10, 21>>, <<2, 11, 25>>,
       <<3, 0, 3>>, <<3, 1, 19>>, <<3, 2, 18>>, <<3, 3, 2>>,
       <<3, 4, 27>>, <<3, 5, 26>>, <<3, 6, 31>>, <<3, 7, 30>>,
       <<3, 8, 7>>, <<3, 9, 23>>, <<3, 10, 22>>, <<3, 11, 6>>,
       <<4, 0, 0>>, <<4, 1, 8>>, <<4, 2, 11>>, <<4, 3, 3>>,
       <<4, 4, 24>>, <<4, 5, 27>>, <<4, 6, 28>>, <<4, 7, 31>>,
       <<4, 8, 4>>, <<4, 9, 12>>, <<4, 10, 15>>, <<4, 11, 7>>,
       <<5, 0, 1>>, <<5, 1, 9>>, <<5, 2, 10>>, <<5, 3, 2>>,
       <<5, 4, 25>>, <<5, 5, 26>>, <<5, 6, 29>>, <<5, 7, 30>>,
       <<5, 8, 5>>, <<5, 9, 13>>, <<5, 10, 14>>, <<5, 11, 6>> >>)

\* Hex32::basis(basis, xi_point): what the routine leaves in
\* an array of num_verts = 32 entries
Hex32_basis(xi_point) ==
  LET ref_verts(v, d) == Hex32_ref_vert[v * 3 + d]
  IN  [vert_lid \in 0..31 |->
        IF vert_lid \in 24..31 THEN
          RMul(RMul(RMul(RMul(RDiv(Rat(9, 1), Rat(64, 1)),
                              RAdd(Rat(1, 1),
                                   RMul(xi_point[0],
                                        ref_verts(vert_lid, 0)))),
                         RAdd(Rat(1, 1),
                              RMul(xi_point[1], ref_verts(vert_lid, 1)))),
                    RAdd(Rat(1, 1),
                         RMul(RMul(Rat(9, 1), xi_point[2]),
                              ref_verts(vert_lid, 2)))),
               RSub(Rat(1, 1), RMul(xi_point[2], xi_point[2])))
        ELSE IF vert_lid \in 16..23 THEN
          RMul(RMul(RMul(RMul(RDiv(Rat(9, 1), Rat(64, 1)),
                              RSub(Rat(1, 1),
                                   RMul(xi_point[0], xi_point[0]))),
                         RAdd(Rat(1, 1),
                              RMul(RMul(Rat(9, 1), xi_point[0]),
                                   ref_verts(vert_lid, 0)))),
                    RAdd(Rat(1, 1),
                         RMul(xi_point[1], ref_verts(vert_lid, 1)))),
               RAdd(Rat(1, 1), RMul(xi_point[2], ref_verts(vert_lid, 2))))
        ELSE IF vert_lid \in 8..15 THEN
          RMul(RMul(RMul(RMul(RDiv(Rat(9, 1), Rat(64, 1)),
                              RAdd(Rat(1, 1),
                                   RMul(xi_point[0],
                                        ref_verts(vert_lid, 0)))),
                         RSub(Rat(1, 1), RMul(xi_point[1], xi_point[1]))),
                    RAdd(Rat(1, 1),
                         RMul(RMul(Rat(9, 1), xi_point[1]),
                              ref_verts(vert_lid, 1)))),
               RAdd(Rat(1, 1), RMul(xi_point[2], ref_verts(vert_lid, 2))))
        ELSE IF vert_lid \in 0..7 THEN
          RMul(RMul(RMul(RMul(RDiv(Rat(1, 1), Rat(64, 1)),
                              RAdd(Rat(1, 1),
                                   RMul(xi_point[0],
                                        ref_verts(vert_lid, 0)))),
                         RAdd(Rat(1, 1),
                              RMul(xi_point[1], ref_verts(vert_lid, 1)))),
                    RAdd(Rat(1, 1),
                         RMul(xi_point[2], ref_verts(vert_lid, 2)))),
               RSub(RAdd(RAdd(RMul(RMul(Rat(9, 1), xi_point[0]),
                                   xi_point[0]),
                              RMul(RMul(Rat(9, 1), xi_point[1]),
                                   xi_point[1])),
                         RMul(RMul(Rat(9, 1), xi_point[2]), xi_point[2])),
                    Rat(19, 1)))
        ELSE Unwritten]

\* Hex32::partial_xi_basis(partial_xi, xi_point): what the routine leaves in
\* an array of num_verts = 32 entries
Hex32_partial_xi_basis(xi_point) ==
  LET ref_verts(v, d) == Hex32_ref_vert[v * 3 + d]
  IN  [vert_lid \in 0..31 |->
        IF vert_lid \in 24..31 THEN
          RMul(RMul(RMul(RMul(RDiv(Rat(9, 1), Rat(64, 1)),
                              ref_verts(vert_lid, 0)),
                         RSub(Rat(1, 1), RMul(xi_point[1], xi_point[1]))),
                    RAdd(Rat(1, 1),
                         RMul(RMul(Rat(9, 1), xi_point[1]),
                              ref_verts(vert_lid, 1)))),
               RAdd(Rat(1, 1), RMul(xi_point[2], ref_verts(vert_lid, 2))))
        ELSE IF vert_lid \in 16..23 THEN
          RMul(RMul(RMul(RDiv(Rat(9, 1), Rat(64, 1)),
                         RAdd(Rat(1, 1),
                              RMul(xi_point[1], ref_verts(vert_lid, 1)))),
                    RAdd(Rat(1, 1),
                         RMul(xi_point[2], ref_verts(vert_lid, 2)))),
               RSub(RMul(RMul(Rat(9, 1), ref_verts(vert_lid, 0)),
                         RSub(Rat(1, 1),
                              RMul(RMul(Rat(3, 1), xi_point[0]),
                                   xi_point[0]))),
                    RMul(Rat(2, 1), xi_point[0])))
        ELSE IF vert_lid \in 8..15 THEN
          RMul(RMul(RMul(RMul(RDiv(Rat(9, 1), Rat(64, 1)),
                              ref_verts(vert_lid, 0)),
                         RAdd(Rat(1, 1),
                              RMul(xi_point[1], ref_verts(vert_lid, 1)))),
                    RAdd(Rat(1, 1),
                         RMul(RMul(Rat(9, 1), xi_point[2]),
                              ref_verts(vert_lid, 2)))),
               RSub(Rat(1, 1), RMul(xi_point[2], xi_point[2])))
        ELSE IF vert_lid \in 0..7 THEN
          RMul(RMul(RMul(RDiv(Rat(1, 1), Rat(64, 1)),
                         RAdd(Rat(1, 1),
                              RMul(xi_point[1], ref_verts(vert_lid, 1)))),
                    RAdd(Rat(1, 1),
                         RMul(xi_point[2], ref_verts(vert_lid, 2)))),
               RSub(RAdd(RMul(RMul(Rat(9, 1), ref_verts(vert_lid, 0)),
                              RAdd(RAdd(RMul(xi_point[0], xi_point[0]),
                                        RMul(xi_point[1], xi_point[1])),
                                   RMul(xi_point[2], xi_point[2]))),
                         RMul(RMul(Rat(18, 1), xi_point[0]),
                              RAdd(Rat(1, 1),
                                   RMul(xi_point[0],
                                        ref_verts(vert_lid, 0))))),
                    RMul(Rat(19, 1), ref_verts(vert_lid, 0))))
        ELSE Unwritten]

\* Hex32::partial_eta_basis(partial_eta, xi_point): what the routine leaves in
\* an array of num_verts = 32 entries
Hex32_partial_eta_basis(xi_point) ==
  LET ref_verts(v, d) == Hex32_ref_vert[v * 3 + d]
  IN  [vert_lid \in 0..31 |->
        IF vert_lid \in 24..31 THEN
          RMul(RMul(RMul(RMul(RDiv(Rat(9, 1), Rat(64, 1)),
                              RAdd(Rat(1, 1),
                                   RMul(xi_point[0],
                                        ref_verts(vert_lid, 0)))),
                         ref_verts(vert_lid, 1)),
                    RAdd(Rat(1, 1),
                         RMul(RMul(Rat(9, 1), xi_point[2]),
                              ref_verts(vert_lid, 2)))),
               RSub(Rat(1, 1), RMul(xi_point[2], xi_point[2])))
        ELSE IF vert_lid \in 16..23 THEN
          RMul(RMul(RMul(RMul(RDiv(Rat(9, 1), Rat(64, 1)),
                              RSub(Rat(1, 1),
                                   RMul(xi_point[0], xi_point[0]))),
                         RAdd(Rat(1, 1),
                              RMul(RMul(Rat(9, 1), xi_point[0]),
                                   ref_verts(vert_lid, 0)))),
                    ref_verts(vert_lid, 1)),
               RAdd(Rat(1, 1), RMul(xi_point[2], ref_verts(vert_lid, 2))))
        ELSE IF vert_lid \in 8..15 THEN
          RMul(RMul(RMul(RDiv(Rat(9, 1), Rat(64, 1)),
                         RAdd(Rat(1, 1),
                              RMul(xi_point[0], ref_verts(vert_lid, 0)))),
                    RAdd(Rat(1, 1),
                         RMul(xi_point[2], ref_verts(vert_lid, 2)))),
               RSub(RMul(RMul(Rat(9, 1), ref_verts(vert_lid, 1)),
                         RSub(Rat(1, 1),
                              RMul(RMul(Rat(3, 1), xi_point[1]),
                                   xi_point[1]))),
                    RMul(Rat(2, 1), xi_point[1])))
        ELSE IF vert_lid \in 0..7 THEN
          RMul(RMul(RMul(RDiv(Rat(1, 1), Rat(64, 1)),
                         RAdd(Rat(1, 1),
                              RMul(xi_point[0], ref_verts(vert_lid, 0)))),
                    RAdd(Rat(1, 1),
                         RMul(xi_point[2], ref_verts(vert_lid, 2)))),
               RSub(RAdd(RMul(RMul(Rat(9, 1), ref_verts(vert_lid, 1)),
                              RAdd(RAdd(RMul(xi_point[0], xi_point[0]),
                                        RMul(xi_point[1], xi_point[1])),
                                   RMul(xi_point[2], xi_point[2]))),
                         RMul(RMul(Rat(18, 1), xi_point[1]),
                              RAdd(Rat(1, 1),
                                   RMul(xi_point[1],
                                        ref_verts(vert_lid, 1))))),
                    RMul(Rat(19, 1), ref_verts(vert_lid, 1))))
        ELSE Unwritten]

\* Hex32::partial_mu_basis(partial_mu, xi_point): what the routine leaves in
\* an array of num_verts = 32 entries
Hex32_partial_mu_basis(xi_point) ==
  LET ref_verts(v, d) == Hex32_ref_vert[v * 3 + d]
  IN  [vert_lid \in 0..31 |->
        IF vert_lid \in 24..31 THEN
          RMul(RMul(RMul(RDiv(Rat(9, 1), Rat(64, 1)),
                         RAdd(Rat(1, 1),
                              RMul(xi_point[0], ref_verts(vert_lid, 0)))),
                    RAdd(Rat(1, 1),
                         RMul(xi_point[1], ref_verts(vert_lid, 1)))),
               RSub(RMul(RMul(Rat(9, 1), ref_verts(vert_lid, 2)),
                         RSub(Rat(1, 1),
                              RMul(RMul(Rat(3, 1), xi_point[2]),
                                   xi_point[2]))),
                    RMul(Rat(2, 1), xi_point[2])))
        ELSE IF vert_lid \in 16..23 THEN
          RMul(RMul(RMul(RMul(RDiv(Rat(9, 1), Rat(64, 1)),
                              RSub(Rat(1, 1),
                                   RMul(xi_point[0], xi_point[0]))),
                         RAdd(Rat(1, 1),
                              RMul(RMul(Rat(9, 1), xi_point[0]),
                                   ref_verts(vert_lid, 0)))),
                    RAdd(Rat(1, 1),
                         RMul(xi_point[1], ref_verts(vert_lid, 1)))),
               ref_verts(vert_lid, 2))
        ELSE IF vert_lid \in 8..15 THEN
          RMul(RMul(RMul(RMul(RDiv(Rat(9, 1), Rat(64, 1)),
                              RAdd(Rat(1, 1),
                                   RMul(xi_point[0],
                                        ref_verts(vert_lid, 0)))),
                         RSub(Rat(1, 1), RMul(xi_point[1], xi_point[1]))),
                    RAdd(Rat(1, 1),
                         RMul(RMul(Rat(9, 1), xi_point[1]),
                              ref_verts(vert_lid, 1)))),
               ref_verts(vert_lid, 2))
        ELSE IF vert_lid \in 0..7 THEN
          RMul(RMul(RMul(RDiv(Rat(1, 1), Rat(64, 1)),
                         RAdd(Rat(1, 1),
                              RMul(xi_point[0], ref_verts(vert_lid, 0)))),
                    RAdd(Rat(1, 1),
                         RMul(xi_point[1], ref_verts(vert_lid, 1)))),
               RSub(RAdd(RMul(RMul(Rat(9, 1), ref_verts(vert_lid, 2)),
                              RAdd(RAdd(RMul(xi_point[0], xi_point[0]),
                                        RMul(xi_point[1], xi_point[1])),
                                   RMul(xi_point[2], xi_point[2]))),
                         RMul(RMul(Rat(18, 1), xi_point[2]),
                              RAdd(Rat(1, 1),
                                   RMul(xi_point[2],
                                        ref_verts(vert_lid, 2))))),
                    RMul(Rat(19, 1), ref_verts(vert_lid, 2))))
        ELSE Unwritten]

\* Hex32::physical_position: the local array basis after the loops over the
\* vertices, then x_point(dim) = 0 and x_point(dim) += vertices(v, dim) *
\* basis(v) for v = 0..32; behind is what a read past the end of basis
\* and of vertices finds
Hex32_physical_position(xi_point, verts, behind) ==
  LET ref_verts(v, d) == Hex32_ref_vert[v * 3 + d]
      basis_a ==
        [vert_lid \in 0..31 |->
           IF vert_lid \in 24..31 THEN
             RMul(RMul(RMul(RMul(RDiv(Rat(9, 1), Rat(64, 1)),
                                 RAdd(Rat(1, 1),
                                      RMul(xi_point[0],
                                           ref_verts(vert_lid, 0)))),
                            RAdd(Rat(1, 1),
                                 RMul(xi_point[1], ref_verts(vert_lid, 1)))),
                       RAdd(Rat(1, 1),
                            RMul(RMul(Rat(9, 1), xi_point[2]),
                                 ref_verts(vert_lid, 2)))),
                  RSub(Rat(1, 1), RMul(xi_point[2], xi_point[2])))
           ELSE IF vert_lid \in 16..23 THEN
             RMul(RMul(RMul(RMul(RDiv(Rat(9, 1), Rat(64, 1)),
                                 RSub(Rat(1, 1),
                                      RMul(xi_point[0], xi_point[0]))),
                            RAdd(Rat(1, 1),
                                 RMul(RMul(Rat(9, 1), xi_point[0]),
                                      ref_verts(vert_lid, 0)))),
                       RAdd(Rat(1, 1),
                            RMul(xi_point[1], ref_verts(vert_lid, 1)))),
                  RAdd(Rat(1, 1), RMul(xi_point[2], ref_verts(vert_lid, 2))))
           ELSE IF vert_lid \in 8..15 THEN
             RMul(RMul(RMul(RMul(RDiv(Rat(9, 1), Rat(64, 1)),
                                 RAdd(Rat(1, 1),
                                      RMul(xi_point[0],
                                           ref_verts(vert_lid, 0)))),
                            RSub(Rat(1, 1), RMul(xi_point[1], xi_point[1]))),
                       RAdd(Rat(1, 1),
                            RMul(RMul(Rat(9, 1), xi_point[1]),
                                 ref_verts(vert_lid, 1)))),
                  RAdd(Rat(1, 1), RMul(xi_point[2], ref_verts(vert_lid, 2))))
           ELSE IF vert_lid \in 0..7 THEN
             RMul(RMul(RMul(RMul(RDiv(Rat(1, 1), Rat(64, 1)),
                                 RAdd(Rat(1, 1),
                                      RMul(xi_point[0],
                                           ref_verts(vert_lid, 0)))),
                            RAdd(Rat(1, 1),
                                 RMul(xi_point[1], ref_verts(vert_lid, 1)))),
                       RAdd(Rat(1, 1),
                            RMul(xi_point[2], ref_verts(vert_lid, 2)))),
                  RSub(RAdd(RAdd(RMul(RMul(Rat(9, 1), xi_point[0]),
                                      xi_point[0]),
                                 RMul(RMul(Rat(9, 1), xi_point[1]),
                                      xi_point[1])),
                            RMul(RMul(Rat(9, 1), xi_point[2]), xi_point[2])),
                       Rat(19, 1)))
           ELSE Unwritten]
  IN  FixedPositionSum(basis_a, verts, 32, 3, 32, behind)

\* --------------------------------------------------------------------------
\* Tess16 (src/src/element_types/elements4D.cpp)

\* Tess16::ref_vert, vertex by vertex, as listed
Tess16_ref_vert ==
  ArrayOf(<<
    Rat(-1, 1), Rat(-1, 1), Rat(-1, 1), Rat(-1, 1),
    Rat(1, 1), Rat(-1, 1), Rat(-1, 1), Rat(-1, 1),
    Rat(1, 1), Rat(-1, 1), Rat(1, 1), Rat(-1, 1),
    Rat(-1, 1), Rat(-1, 1), Rat(1, 1), Rat(-1, 1),
    Rat(-1, 1), Rat(1, 1), Rat(-1, 1), Rat(-1, 1),
    Rat(1, 1), Rat(1, 1), Rat(-1, 1), Rat(-1, 1),
    Rat(1, 1), Rat(1, 1), Rat(1, 1), Rat(-1, 1),
    Rat(-1, 1), Rat(1, 1), Rat(1, 1), Rat(-1, 1),
    Rat(-1, 1), Rat(-1, 1), Rat(-1, 1), Rat(1, 1),
    Rat(1, 1), Rat(-1, 1), Rat(-1, 1), Rat(1, 1),
    Rat(1, 1), Rat(-1, 1), Rat(1, 1), Rat(1, 1),
    Rat(-1, 1), Rat(-1, 1), Rat(1, 1), Rat(1, 1),
    Rat(-1, 1), Rat(1, 1), Rat(-1, 1), Rat(1, 1),
    Rat(1, 1), Rat(1, 1), Rat(-1, 1), Rat(1, 1),
    Rat(1, 1), Rat(1, 1), Rat(1, 1), Rat(1, 1),
    Rat(-1, 1), Rat(1, 1), Rat(1, 1), Rat(1, 1) >>)

\* Tess16::basis(basis, xi_point): what the routine leaves in
\* an array of num_verts = 16 entries
Tess16_basis(xi_point) ==
  LET ref_verts(v, d) == Tess16_ref_vert[v * 4 + d]
  IN  [this_vert \in 0..15 |->
        IF this_vert \in 0..15 THEN
          RMul(RMul(RMul(RMul(RDiv(Rat(1, 1), Rat(16, 1)),
                              RAdd(Rat(1, 1),
                                   RMul(xi_point[0],
                                        ref_verts(this_vert, 0)))),
                         RAdd(Rat(1, 1),
                              RMul(xi_point[1], ref_verts(this_vert, 1)))),
                    RAdd(Rat(1, 1),
                         RMul(xi_point[2], ref_verts(this_vert, 2)))),
               RAdd(Rat(1, 1), RMul(xi_point[3], ref_verts(this_vert, 3))))
        ELSE Unwritten]

\* Tess16::partial_xi_basis(partial_xi, xi_point): what the routine leaves in
\* an array of num_verts = 16 entries
Tess16_partial_xi_basis(xi_point) ==
  LET ref_verts(v, d) == Tess16_ref_vert[v * 4 + d]
  IN  [this_vert \in 0..15 |->
        IF this_vert \in 0..15 THEN
          RMul(RMul(RMul(RMul(RDiv(Rat(1, 1), Rat(16, 1)),
                              ref_verts(this_vert, 0)),
                         RAdd(Rat(1, 1),
                              RMul(xi_point[1], ref_verts(this_vert, 1)))),
                    RAdd(Rat(1, 1),
                         RMul(xi_point[2], ref_verts(this_vert, 2)))),
               RAdd(Rat(1, 1), RMul(xi_point[3], ref_verts(this_vert, 3))))
        ELSE Unwritten]

\* Tess16::partial_eta_basis(partial_eta, xi_point): what the routine leaves in
\* an array of num_verts = 16 entries
Tess16_partial_eta_basis(xi_point) ==
  LET ref_verts(v, d) == Tess16_ref_vert[v * 4 + d]
  IN  [this_vert \in 0..15 |->
        IF this_vert \in 0..15 THEN
          RMul(RMul(RMul(RMul(RDiv(Rat(1, 1), Rat(16, 1)),
                              RAdd(Rat(1, 1),
                                   RMul(xi_point[0],
                                        ref_verts(this_vert, 0)))),
                         ref_verts(this_vert, 1)),
                    RAdd(Rat(1, 1),
                         RMul(xi_point[2], ref_verts(this_vert, 2)))),
               RAdd(Rat(1, 1), RMul(xi_point[3], ref_verts(this_vert, 3))))
        ELSE Unwritten]

\* Tess16::partial_mu_basis(partial_mu, xi_point): what the routine leaves in
\* an array of num_verts = 16 entries
Tess16_partial_mu_basis(xi_point) ==
  LET ref_verts(v, d) == Tess16_ref_vert[v * 4 + d]
  IN  [this_vert \in 0..15 |->
        IF this_vert \in 0..15 THEN
          RMul(RMul(RMul(RMul(RDiv(Rat(1, 1), Rat(16, 1)),
                              RAdd(Rat(1, 1),
                                   RMul(xi_point[0],
                                        ref_verts(this_vert, 0)))),
                         RAdd(Rat(1, 1),
                              RMul(xi_point[1], ref_verts(this_vert, 1)))),
                    ref_verts(this_vert, 2)),
               RAdd(Rat(1, 1), RMul(xi_point[3], ref_verts(this_vert, 3))))
        ELSE Unwritten]

\* Tess16::partial_tau_basis(partial_tau, xi_point): what the routine leaves in
\* an array of num_verts = 16 entries
Tess16_partial_tau_basis(xi_point) ==
  LET ref_verts(v, d) == Tess16_ref_vert[v * 4 + d]
  IN  [this_vert \in 0..15 |->
        IF this_vert \in 0..15 THEN
          RMul(RMul(RMul(RMul(RDiv(Rat(1, 1), Rat(16, 1)),
                              RAdd(Rat(1, 1),
                                   RMul(xi_point[0],
                                        ref_verts(this_vert, 0)))),
                         RAdd(Rat(1, 1),
                              RMul(xi_point[1], ref_verts(this_vert, 1)))),
                    RAdd(Rat(1, 1),
                         RMul(xi_point[2], ref_verts(this_vert, 2)))),
               ref_verts(this_vert, 3))
        ELSE Unwritten]

\* Tess16::physical_position: the local array basis after the loops over the
\* vertices, then x_point(dim) = 0 and x_point(dim) += vertices(v, dim) *
\* basis(v) for v = 0..15; behind is what a read past the end of basis
\* and of vertices finds
Tess16_physical_position(xi_point, verts, behind) ==
  LET ref_verts(v, d) == Tess16_ref_vert[v * 4 + d]
      basis_a ==
        [this_vert \in 0..15 |->
           IF this_vert \in 0..15 THEN
             RMul(RMul(RMul(RMul(RDiv(Rat(1, 1), Rat(16, 1)),
                                 RAdd(Rat(1, 1),
                                      RMul(xi_point[0],
                                           ref_verts(this_vert, 0)))),
                            RAdd(Rat(1, 1),
                                 RMul(xi_point[1], ref_verts(this_vert, 1)))),
                       RAdd(Rat(1, 1),
                            RMul(xi_point[2], ref_verts(this_vert, 2)))),
                  RAdd(Rat(1, 1), RMul(xi_point[3], ref_verts(this_vert, 3))))
           ELSE Unwritten]
  IN  FixedPositionSum(basis_a, verts, 16, 4, 15, behind)


\* --------------------------------------------------------------------------
\* the routines of the element e

\* num_dim of the element: Element2D, Element3D, Element4D
FixedDim(e) ==
  CASE e \in { "Quad4", "Quad8", "Quad12" } -> 2
    [] e \in { "Hex8", "Hex20", "Hex32" } -> 3
    [] e = "Tess16" -> 4

FixedRefVert(e) ==
  CASE e = "Quad4" -> Quad4_ref_vert
    [] e = "Quad8" -> Quad8_ref_vert
    [] e = "Quad12" -> Quad12_ref_vert
    [] e = "Hex8" -> Hex8_ref_vert
    [] e = "Hex20" -> Hex20_ref_vert
    [] e = "Hex32" -> Hex32_ref_vert
    [] e = "Tess16" -> Tess16_ref_vert

\* num_verts of the element: ref_vert holds num_verts * num_dim numbers
FixedVerts(e) == Cardinality(DOMAIN FixedRefVert(e)) \div FixedDim(e)

\* ref_verts(vert_lid, dim), the view of ref_vert the routines read
ref_locs(e, vert_lid, dim) == FixedRefVert(e)[vert_lid * FixedDim(e) + dim]

\* vert_node_map(vert_lid) returns vert_to_node[vert_lid]; Tess16 has none
FixedVertToNode(e) ==
  CASE e = "Quad4" -> Quad4_vert_to_node
    [] e = "Quad8" -> Quad8_vert_to_node
    [] e = "Quad12" -> Quad12_vert_to_node
    [] e = "Hex8" -> Hex8_vert_to_node
    [] e = "Hex20" -> Hex20_vert_to_node
    [] e = "Hex32" -> Hex32_vert_to_node
    [] e = "Tess16" -> NewArray(0)

\* surface_to_dof_lid as the constructor of the element leaves it; Tess16
\* has no constructor that fills one
FixedSurfaces(e) ==
  CASE e = "Quad4" -> Quad4_ctor
    [] e = "Quad8" -> Quad8_ctor
    [] e = "Quad12" -> Quad12_ctor
    [] e = "Hex8" -> Hex8_ctor
    [] e = "Hex20" -> Hex20_ctor
    [] e = "Hex32" -> Hex32_ctor
    [] e = "Tess16" -> NewArray(0)

FixedBasis(e, xi_point) ==
  CASE e = "Quad4" -> Quad4_basis(xi_point)
    [] e = "Quad8" -> Quad8_basis(xi_point)
    [] e = "Quad12" -> Quad12_basis(xi_point)
    [] e = "Hex8" -> Hex8_basis(xi_point)
    [] e = "Hex20" -> Hex20_basis(xi_point)
    [] e = "Hex32" -> Hex32_basis(xi_point)
    [] e = "Tess16" -> Tess16_basis(xi_point)

\* the partial-derivative routine of the reference coordinate dim:
\* partial_xi_basis, partial_eta_basis, partial_mu_basis, partial_tau_basis
FixedPartial(e, dim, xi_point) ==
  CASE e = "Quad4" /\ dim = 0 -> Quad4_partial_xi_basis(xi_point)
    [] e = "Quad4" /\ dim = 1 -> Quad4_partial_eta_basis(xi_point)
    [] e = "Quad8" /\ dim = 0 -> Quad8_partial_xi_basis(xi_point)
    [] e = "Quad8" /\ dim = 1 -> Quad8_partial_eta_basis(xi_point)
    [] e = "Quad12" /\ dim = 0 -> Quad12_partial_xi_basis(xi_point)
    [] e = "Quad12" /\ dim = 1 -> Quad12_partial_eta_basis(xi_point)
    [] e = "Hex8" /\ dim = 0 -> Hex8_partial_xi_basis(xi_point)
    [] e = "Hex8" /\ dim = 1 -> Hex8_partial_eta_basis(xi_point)
    [] e = "Hex8" /\ dim = 2 -> Hex8_partial_mu_basis(xi_point)
    [] e = "Hex20" /\ dim = 0 -> Hex20_partial_xi_basis(xi_point)
    [] e = "Hex20" /\ dim = 1 -> Hex20_partial_eta_basis(xi_point)
    [] e = "Hex20" /\ dim = 2 -> Hex20_partial_mu_basis(xi_point)
    [] e = "Hex32" /\ dim = 0 -> Hex32_partial_xi_basis(xi_point)
    [] e = "Hex32" /\ dim = 1 -> Hex32_partial_eta_basis(xi_point)
    [] e = "Hex32" /\ dim = 2 -> Hex32_partial_mu_basis(xi_point)
    [] e = "Tess16" /\ dim = 0 -> Tess16_partial_xi_basis(xi_point)
    [] e = "Tess16" /\ dim = 1 -> Tess16_partial_eta_basis(xi_point)
    [] e = "Tess16" /\ dim = 2 -> Tess16_partial_mu_basis(xi_point)
    [] e = "Tess16" /\ dim = 3 -> Tess16_partial_tau_basis(xi_point)

FixedPosition(e, xi_point, verts, behind) ==
  CASE e = "Quad4" -> Quad4_physical_position(xi_point, verts, behind)
    [] e = "Quad8" -> Quad8_physical_position(xi_point, verts, behind)
    [] e = "Quad12" -> Quad12_physical_position(xi_point, verts, behind)
    [] e = "Hex8" -> Hex8_physical_position(xi_point, verts, behind)
    [] e = "Hex20" -> Hex20_physical_position(xi_point, verts, behind)
    [] e = "Hex32" -> Hex32_physical_position(xi_point, verts, behind)
    [] e = "Tess16" -> Tess16_physical_position(xi_point, verts, behind)

\* the reference position of the vertex vert_lid
RefPoint(e, vert_lid) ==
  [dim \in 0..(FixedDim(e) - 1) |-> ref_locs(e, vert_lid, dim)]

\* coordinates of points that are no vertex of any element
GenericCoords == <<Rat(1, 2), Rat(-1, 3), Zero>>

\* the reference points a caller evaluates the element at: the reference
\* position of every vertex and three points in general position
FixedPoints(e) ==
  { RefPoint(e, vert_lid) : vert_lid \in 0..(FixedVerts(e) - 1) }
    \cup { [dim \in 0..(FixedDim(e) - 1) |->
              GenericCoords[((dim + shift) % 3) + 1]] : shift \in 0..2 }

\* vertex arrays a caller maps the element with: the vertices at their
\* reference positions, and the same sheared along xi
FixedVertexArrays(e) ==
  { [vert_lid \in 0..(FixedVerts(e) - 1) |-> RefPoint(e, vert_lid)],
    [vert_lid \in 0..(FixedVerts(e) - 1) |->
       [dim \in 0..(FixedDim(e) - 1) |->
          IF dim = 0
          THEN RAdd(ref_locs(e, vert_lid, 0), ref_locs(e, vert_lid, 1))
          ELSE ref_locs(e, vert_lid, dim)]] }

\* what the caller's x_point holds before a call: zeros, or the numbers of
\* an earlier use
FixedXPoints(e) ==
  { [dim \in 0..(FixedDim(e) - 1) |-> Zero],
    [dim \in 0..(FixedDim(e) - 1) |-> IF dim = 0 THEN One ELSE Rat(-1, 1)] }

\* what a read past the end of an array can find there
FixedBehind == { Zero, One }

----------------------------------------------------------------------------
VARIABLES
  elem_type,        \* the element the caller works with: "HexN" or "QuadN"
  is_setup,         \* HexN: setup_HexN has run
  num_nodes_1d_, num_nodes_, num_verts_1d_, num_verts_, num_basis_, order_,
  HexN_Nodes_1d_,   \* HexN: 1D node coordinates
  HexN_Verts_1d_,   \* HexN: 1D vertex coordinates
  Vert_Node_map_,   \* HexN: vertex id -> node id
  orderN,           \* QuadN: element order passed to every routine
  nodes_1d,         \* QuadN: the caller's 1D node coordinates
  lag_nodes, val_1d, DVal_1d, val_2d, DVal_2d, lag_basis_2d, lag_partial,
                    \* QuadN: the caller's arrays handed to the routines
  point,            \* the caller's evaluation point
  out,              \* HexN: the output array handed to the current call
  out_count,        \* HexN: how often the call wrote each entry of out
  last_op,          \* the routine that was called, "none" before a call
  last_axis,        \* the coordinate of point a 1D routine was called with
  divs,             \* the divisors of the divisions the call performed
  elem_N,           \* LagrangeElement: number of 1D nodes, order + 1
  elem_Z,           \* LagrangeElement: the 1D node coordinates
  p_c,              \* LagrangeElement test: the coefficients
  sum1, sum2,       \* LagrangeElement test: the two sums test1 compares
  rel_error,        \* LagrangeElement test: their relative error
  dNf, grad_f,      \* LagrangeElement test: the two gradients test2 compares
  rel_errorN,       \* LagrangeElement test: their relative errors
  dNphi, grad_phi,  \* LagrangeElement test: the two gradients test3 compares
  x_point,          \* QuadN: the caller's array for the physical position
  vertices,         \* QuadN: the vertex array handed to physical_position
  pos_order,        \* QuadN: the order handed to physical_position
  lag_corner,       \* QuadN: the caller's array for the corner nodes
  raised,           \* the error condition the call reported, "none" if none
  elem_verts,       \* LagrangeElement: the vertex coordinates, by axis
  jac, det_jac, inv_jac,
                    \* LagrangeElement: what eval_jac, eval_det_jac and
                    \* eval_inv_jac gave the caller
  C,                \* LagrangeElement: the work array of the element
  call_pc,          \* where each concurrent call of eval_approx stands
  call_X, call_c,   \* the point and the coefficients of each call
  call_result,      \* what each call returned
  surface_to_dof_lid,
                    \* fixed-order element: the surface table of the element
  trace             \* fixed-order element: the vertex indices the call of
                    \* physical_position wrote basis at and read at

hexVars == <<is_setup, num_nodes_1d_, num_nodes_, num_verts_1d_, num_verts_,
             num_basis_, order_, HexN_Nodes_1d_, HexN_Verts_1d_,
             Vert_Node_map_>>

quadIn == <<orderN, nodes_1d>>

quadOut == <<lag_nodes, val_1d, DVal_1d, val_2d, DVal_2d, lag_basis_2d,
             lag_partial>>

hexOut == <<out, out_count>>

lagVars == <<elem_N, elem_Z, p_c>>

testOut == <<sum1, sum2, rel_error>>

test2Out == <<dNf, grad_f, rel_errorN>>

test3Out == <<dNphi, grad_phi>>

posVars == <<x_point, vertices, pos_order, lag_corner>>

mapVars == <<elem_verts, jac, det_jac, inv_jac>>

concVars == <<C, call_pc, call_X, call_c, call_result>>

fixedVars == <<surface_to_dof_lid, trace>>

\* the state the routines of HexN and test1 do not touch
extVars == <<test2Out, test3Out, posVars, raised, mapVars, concVars,
             fixedVars>>

vars == <<elem_type, hexVars, quadIn, quadOut, point, hexOut, last_op,
          last_axis, divs, lagVars, testOut, extVars>>

Empty == NewArray(0)

\* three components nothing was written to
Unwritten3 == [d \in 0..2 |-> Unwritten]

\* test2 has not run
InitTest2 == dNf = Unwritten3 /\ grad_f = Unwritten3 /\ rel_errorN = Unwritten3

\* the state outside the element at hand, as it is before it is used
\* test3 has not run
InitTest3 == dNphi = Unwritten3 /\ grad_phi = Unwritten3

\* physical_position has not been called
InitPos ==
  /\ vertices = Empty /\ pos_order = 0
  /\ lag_corner = (IF elem_type = "QuadN" THEN NewArray2(4) ELSE Empty)

\* no Jacobian has been evaluated
InitJac == jac = Unwritten33 /\ det_jac = Unwritten /\ inv_jac = Unwritten33

\* no concurrent calls of eval_approx are under way
Calls == 1..2

NoCalls ==
  /\ C = Empty
  /\ call_pc = [k \in Calls |-> "idle"]
  /\ call_X = [k \in Calls |-> Empty]
  /\ call_c = [k \in Calls |-> Empty]
  /\ call_result = [k \in Calls |-> Unwritten]

\* no call of physical_position of a fixed-order element has been traced
NoTrace == [written |-> {}, read |-> {}]

\* the surface table is what the constructor of the element left
InitSurfaces ==
  /\ surface_to_dof_lid =
       (IF elem_type \in FixedElems THEN FixedSurfaces(elem_type) ELSE Empty)
  /\ trace = NoTrace

InitExt ==
  /\ InitTest2 /\ InitTest3 /\ InitPos /\ raised = "none" /\ InitJac
  /\ InitSurfaces

InitHexN ==
  /\ elem_type = "HexN"
  /\ is_setup = FALSE
  /\ num_nodes_1d_ = 0 /\ num_nodes_ = 0 /\ num_verts_1d_ = 0
  /\ num_verts_ = 0 /\ num_basis_ = 0 /\ order_ = 0
  /\ HexN_Nodes_1d_ = Empty /\ HexN_Verts_1d_ = Empty /\ Vert_Node_map_ = Empty
  /\ orderN = 0 /\ nodes_1d = Empty
  /\ lag_nodes = Empty /\ val_1d = Empty /\ DVal_1d = Empty /\ val_2d = Empty
  /\ DVal_2d = Empty /\ lag_basis_2d = Empty /\ lag_partial = Empty
  /\ point \in [0..2 -> PointCoords]
  /\ x_point = Empty
  /\ out = Empty /\ out_count = Empty
  /\ last_op = "none" /\ last_axis = 0 /\ divs = {}
  /\ elem_N = 0 /\ elem_Z = Empty /\ p_c = Empty
  /\ sum1 = Unwritten /\ sum2 = Unwritten /\ rel_error = Unwritten
  /\ InitExt /\ elem_verts = Empty /\ NoCalls

\* the arguments a caller of QuadN sets up, with a node set in ascending
\* order or one in which a coordinate is repeated, and an array for the
\* physical position with one of the contents xs
QuadArguments(orders, repeated, xs) ==
  /\ elem_type = "QuadN"
  /\ is_setup = FALSE
  /\ num_nodes_1d_ = 0 /\ num_nodes_ = 0 /\ num_verts_1d_ = 0
  /\ num_verts_ = 0 /\ num_basis_ = 0 /\ order_ = 0
  /\ HexN_Nodes_1d_ = Empty /\ HexN_Verts_1d_ = Empty /\ Vert_Node_map_ = Empty
  /\ orderN \in orders
  /\ nodes_1d \in (IF repeated THEN RepeatedNodeSets(orderN + 1)
                   ELSE AscendingNodeSets(orderN + 1))
  /\ lag_nodes = NewArray2((orderN + 1) * (orderN + 1))
  /\ val_1d = NewArray(orderN + 1)
  /\ DVal_1d = NewArray(orderN + 1)
  /\ val_2d = NewArray2((orderN + 1) * (orderN + 1))
  /\ DVal_2d = NewArray2((orderN + 1) * (orderN + 1))
  /\ lag_basis_2d = NewArray((orderN + 1) * (orderN + 1))
  /\ lag_partial = NewArray2((orderN + 1) * (orderN + 1))
  /\ point \in [0..(num_dim - 1) -> PointCoords]
  /\ x_point \in xs
  /\ out = Empty /\ out_count = Empty
  /\ last_op = "none" /\ last_axis = 0 /\ divs = {}
  /\ elem_N = 0 /\ elem_Z = Empty /\ p_c = Empty
  /\ sum1 = Unwritten /\ sum2 = Unwritten /\ rel_error = Unwritten
  /\ InitExt /\ elem_verts = Empty /\ NoCalls

\* the caller of QuadN with nodes in ascending order
InitQuadN == QuadArguments(0..MaxOrder, FALSE, { Row2(Zero, Zero) })

\* the same caller, who goes on to ask for the physical position with an
\* array that is fresh or has been used before
InitPosition == QuadArguments(0..MaxOrder, FALSE, XPointContents)

\* the caller of QuadN with a node set in which a coordinate is repeated
InitRepeated == QuadArguments(1..MaxOrder, TRUE, XPointContents)

\* TestParams(order): N = order + 1 equispaced points between -1 and 1, an
\* element on them, Ne = N^3 coefficients between 0 and 1, a point
TestParams(coords) ==
  /\ elem_type = "LagrangeElement"
  /\ is_setup = FALSE
  /\ num_nodes_1d_ = 0 /\ num_nodes_ = 0 /\ num_verts_1d_ = 0
  /\ num_verts_ = 0 /\ num_basis_ = 0 /\ order_ = 0
  /\ HexN_Nodes_1d_ = Empty /\ HexN_Verts_1d_ = Empty /\ Vert_Node_map_ = Empty
  /\ orderN = 0 /\ nodes_1d = Empty
  /\ lag_nodes = Empty /\ val_1d = Empty /\ DVal_1d = Empty /\ val_2d = Empty
  /\ DVal_2d = Empty /\ lag_basis_2d = Empty /\ lag_partial = Empty
  /\ point \in [0..2 -> coords]
  /\ x_point = Empty
  /\ out = Empty /\ out_count = Empty
  /\ last_op = "none" /\ last_axis = 0 /\ divs = {}
  /\ \E order \in 1..MaxOrder :
       /\ elem_N = order + 1
       /\ elem_Z = equispaced_points(order + 1, Rat(-1, 1), Rat(1, 1))
       /\ p_c \in CoeffVectors((order + 1) * (order + 1) * (order + 1))
  /\ sum1 = Unwritten /\ sum2 = Unwritten /\ rel_error = Unwritten
  /\ InitExt

InitLagrangeElement ==
  TestParams(PointCoords) /\ elem_verts = Empty /\ NoCalls

\* the same with the point among the coordinates up to the centre of the
\* interval
InitGrad == TestParams(GradCoords) /\ elem_verts = Empty /\ NoCalls

\* the same with the coordinates of the vertices of the element in space,
\* at the points of the plane mu = xi; no coefficients are needed
InitMap ==
  /\ TestParams(GradCoords)
  /\ point[2] = point[0]
  /\ p_c = [slot \in DOMAIN p_c |-> Zero]
  /\ elem_verts \in VertexConfigs(elem_Z, elem_N)
  /\ NoCalls

Init == InitHexN \/ InitQuadN

\* HexN::setup_HexN(elem_order)
setup_HexN(elem_order) ==
  /\ elem_type = "HexN" /\ ~is_setup
  /\ LET nn1 == IF elem_order = 0 THEN 2 ELSE 2 * elem_order + 1
         nv1 == IF elem_order = 0 THEN 2 ELSE elem_order + 1
         nn  == nn1 * nn1 * nn1
         nv  == nv1 * nv1 * nv1
     IN  \E lobatto \in LobattoNodeSets(nn1) :
           /\ num_nodes_1d_' = nn1
           /\ num_nodes_' = nn
           /\ num_verts_1d_' = nv1
           /\ num_verts_' = nv
           /\ num_basis_' = nv
           /\ order_' = (IF elem_order = 0 THEN elem_order + 1 ELSE elem_order)
           /\ HexN_Nodes_1d_' =
                [slot \in 0..(nn - 1) |->
                   IF slot < nn1 THEN lobatto[slot] ELSE Unwritten]
           /\ HexN_Verts_1d_' = create_lobatto_nodes(elem_order, lobatto, nv)
           /\ Vert_Node_map_' =
                VertNodeLoop(nn1, IF elem_order = 0 THEN 1 ELSE 2, nv)
  /\ is_setup' = TRUE
  /\ UNCHANGED <<elem_type, lagVars, extVars, testOut, quadIn, quadOut,
                 point, hexOut, last_op, last_axis, divs>>

\* a call of a 1D routine of HexN with point(d), r what it wrote
Hex1DCall(op, d, r) ==
  /\ elem_type = "HexN" /\ is_setup /\ last_op = "none"
  /\ out' = r.vals
  /\ out_count' = [slot \in 0..(num_verts_1d_ - 1) |-> 1]
  /\ divs' = r.divs
  /\ last_op' = op /\ last_axis' = d
  /\ UNCHANGED <<elem_type, lagVars, extVars, testOut, hexVars, quadIn,
                 quadOut, point>>

\* HexN::lagrange_basis_1D(interp, point(d))
Hex_lagrange_basis_1D(d) ==
  Hex1DCall("lagrange_basis_1D", d,
            lagrange_basis_1D(HexN_Verts_1d_, num_verts_1d_, point[d]))

\* HexN::lagrange_derivative_1D(derivative, point(d))
Hex_lagrange_derivative_1D(d) ==
  Hex1DCall("lagrange_derivative_1D", d,
            lagrange_derivative_1D(HexN_Verts_1d_, num_verts_1d_, point[d]))

\* a call of a tensor-product routine of HexN that clears the coordinate of
\* the point it has used, as the routine clears val_1d
HexCall_clearsPoint(op, r) ==
  /\ elem_type = "HexN" /\ is_setup /\ last_op = "none"
  /\ out' = r.arr /\ out_count' = r.count /\ divs' = r.divs
  /\ last_op' = op /\ last_axis' = 0
  /\ point' = [d \in 0..2 |-> Zero]
  /\ UNCHANGED <<elem_type, lagVars, extVars, testOut, hexVars, quadIn,
                 quadOut>>

\* a call of a tensor-product routine of HexN, r what it wrote
HexCall(op, r) ==
  /\ elem_type = "HexN" /\ is_setup /\ last_op = "none"
  /\ out' = r.arr /\ out_count' = r.count /\ divs' = r.divs
  /\ last_op' = op /\ last_axis' = 0
  /\ UNCHANGED <<elem_type, lagVars, extVars, testOut, hexVars, quadIn,
                 quadOut, point>>

Hex_basis ==
  HexCall("basis", basis(HexN_Verts_1d_, num_verts_1d_, num_basis_, point))

Hex_partial_xi_basis ==
  HexCall("partial_xi_basis",
          partial_xi_basis(HexN_Verts_1d_, num_verts_1d_, num_basis_, point))

Hex_partial_eta_basis ==
  HexCall("partial_eta_basis",
          partial_eta_basis(HexN_Verts_1d_, num_verts_1d_, num_basis_, point))

Hex_partial_mu_basis ==
  HexCall("partial_mu_basis",
          partial_mu_basis(HexN_Verts_1d_, num_verts_1d_, num_basis_, point))

\* a call of QuadN::lagrange_1D with point(d), r what it wrote
Quad1DCall(d, r) ==
  /\ elem_type = "QuadN" /\ last_op = "none"
  /\ val_1d' = r.interp
  /\ DVal_1d' = r.Dinterp
  /\ divs' = r.divs
  /\ last_op' = "lagrange_1D" /\ last_axis' = d
  /\ UNCHANGED <<elem_type, lagVars, extVars, testOut, hexVars, quadIn, lag_nodes,
                 val_2d, DVal_2d, lag_basis_2d, lag_partial, point, hexOut>>

\* QuadN::lagrange_1D(val_1d, DVal_1d, point(d), nodes_1d, orderN)
Quad_lagrange_1D(d) == Quad1DCall(d, lagrange_1D(point[d], nodes_1d, orderN))

\* a call of QuadN::basis_partials, r what it wrote
QuadCall(r) ==
  /\ elem_type = "QuadN" /\ last_op = "none"
  /\ lag_nodes' = r.lag_nodes
  /\ val_1d' = r.val_1d
  /\ DVal_1d' = r.DVal_1d
  /\ val_2d' = r.val_2d
  /\ DVal_2d' = r.DVal_2d
  /\ lag_basis_2d' = r.lag_basis_2d
  /\ lag_partial' = r.lag_partial
  /\ divs' = r.divs
  /\ last_op' = "basis_partials" /\ last_axis' = 0
  /\ UNCHANGED <<elem_type, lagVars, extVars, testOut, hexVars, quadIn,
                 point, hexOut>>

\* QuadN::basis_partials(lag_nodes, nodes_1d, val_1d, DVal_1d, val_2d,
\*                       DVal_2d, lag_basis_2d, lag_partial, point, orderN)
Quad_basis_partials == QuadCall(basis_partials(nodes_1d, point, orderN))

\* a call of QuadN::physical_position with the vertex array verts and the
\* order order, after basis_partials filled lag_basis_2d; x what x_point
\* holds afterwards.  The routine has no way to report an error.
PositionCall(order, verts, x) ==
  /\ elem_type = "QuadN" /\ last_op = "basis_partials"
  /\ x_point' = x
  /\ vertices' = verts
  /\ pos_order' = order
  /\ raised' = "none"
  /\ last_op' = "physical_position"
  /\ UNCHANGED <<elem_type, lagVars, testOut, test2Out, test3Out, mapVars,
                 concVars, fixedVars, hexVars, quadIn, quadOut, point, hexOut,
                 last_axis, divs, lag_corner>>

\* QuadN::physical_position(x_point, verts, lag_basis_2d, order)
Quad_physical_position(order, verts, behind) ==
  PositionCall(order, verts,
               physical_position(x_point, verts, lag_basis_2d,
                                 (orderN + 1) * (orderN + 1), order, behind))

\* QuadN::corners(lag_nodes, lag_corner, orderN), called on the nodes
\* basis_partials has filled in
Quad_corners ==
  /\ elem_type = "QuadN" /\ last_op = "basis_partials"
  /\ lag_corner' = corners(lag_nodes, orderN)
  /\ last_op' = "corners"
  /\ UNCHANGED <<elem_type, lagVars, testOut, test2Out, test3Out, mapVars,
                 concVars, fixedVars, hexVars, quadIn, quadOut, point, hexOut,
                 last_axis, divs, x_point, vertices, pos_order, raised>>

\* what a read past the end of the caller's arrays can find there; nothing
\* is read there when the order fits the arrays
Behind(order) == IF order > orderN THEN { Zero, One } ELSE { Zero }

\* the sums of a case of test1 and their relative error
TestCase(s1, s2) ==
  /\ elem_type = "LagrangeElement" /\ last_op = "none"
  /\ sum1' = s1
  /\ sum2' = s2
  /\ rel_error' = RAbs(RDiv(RSub(s1, s2), s1))
  /\ last_op' = "test1" /\ last_axis' = 0
  /\ UNCHANGED <<elem_type, lagVars, extVars, hexVars, quadIn, quadOut,
                 point, hexOut, divs>>

\* One case of test1: sum1 by the loop over eval_basis, sum2 by
\* eval_approx, and their relative error, at the point of the case
test1_case ==
  TestCase(Test1Loop(p_c, point, elem_Z, elem_N, elem_N * elem_N),
           eval_approx(p_c, point, elem_Z, elem_N))

\* the gradients of a case of test2 and their relative errors
Test2Case(df, gf) ==
  /\ elem_type = "LagrangeElement" /\ last_op = "none"
  /\ dNf' = df
  /\ grad_f' = gf
  /\ rel_errorN' = [d \in 0..2 |-> RelError(df[d], gf[d], df[d])]
  /\ last_op' = "test2" /\ last_axis' = 0
  /\ UNCHANGED <<elem_type, lagVars, testOut, test3Out, posVars, raised,
                 mapVars, concVars, fixedVars, hexVars, quadIn, quadOut, point,
                 hexOut, divs>>

\* One case of test2: d0f, d1f, d2f by the loop over eval_grad_basis, grad_f
\* by eval_grad_approx, and their relative errors, at the point of the case
test2_case ==
  Test2Case(Vec3(Test2Loop(p_c, point, elem_Z, elem_N, 0, elem_N * elem_N),
                 Test2Loop(p_c, point, elem_Z, elem_N, 1, elem_N * elem_N),
                 Test2Loop(p_c, point, elem_Z, elem_N, 2, elem_N * elem_N)),
            eval_grad_approx(p_c, point, elem_Z, elem_N))

\* the gradients of test3 and their relative errors
Test3Case(dphi, gphi) ==
  /\ elem_type = "LagrangeElement" /\ last_op = "none"
  /\ dNphi' = dphi
  /\ grad_phi' = gphi
  /\ rel_errorN' = [d \in 0..2 |-> RelError(gphi[d], dphi[d], dphi[d])]
  /\ last_op' = "test3" /\ last_axis' = 0
  /\ UNCHANGED <<elem_type, lagVars, testOut, dNf, grad_f, posVars, raised,
                 mapVars, concVars, fixedVars, hexVars, quadIn, quadOut, point,
                 hexOut, divs>>

\* test3: d0phi, d1phi, d2phi by a complex step of eval_basis(0, .) along
\* each direction, grad_phi by eval_grad_basis(0, X), their relative errors
test3_case ==
  Test3Case(Vec3(ComplexStepDerivative(point, 0, elem_Z, elem_N),
                 ComplexStepDerivative(point, 1, elem_Z, elem_N),
                 ComplexStepDerivative(point, 2, elem_Z, elem_N)),
            eval_grad_basis(0, point, elem_Z, elem_N))

\* a call of a Jacobian routine of the LagrangeElement: J, det and inv what
\* the caller's outputs hold afterwards, err what the call reported
JacCall(op, J, det, inv, err) ==
  /\ elem_type = "LagrangeElement" /\ elem_verts # Empty
  /\ last_op # op
  /\ jac' = J /\ det_jac' = det /\ inv_jac' = inv
  /\ raised' = err
  /\ last_op' = op /\ last_axis' = 0
  /\ UNCHANGED <<elem_type, lagVars, testOut, test2Out, test3Out, posVars,
                 elem_verts, concVars, fixedVars, hexVars, quadIn, quadOut,
                 point,
                 hexOut, divs>>

\* eval_jac(x, y, z, X, J)
Lag_eval_jac ==
  /\ jac = Unwritten33
  /\ JacCall("eval_jac", eval_jac(elem_verts, point, elem_Z, elem_N), det_jac,
             inv_jac, "none")

\* eval_det_jac(x, y, z, X)
Lag_eval_det_jac ==
  /\ det_jac = Unwritten
  /\ JacCall("eval_det_jac", jac,
             eval_det_jac(elem_verts, point, elem_Z, elem_N), inv_jac, "none")

InvJacCall(r) == JacCall("eval_inv_jac", jac, det_jac, r.inv, r.raised)

\* eval_inv_jac(x, y, z, X, Jinv)
Lag_eval_inv_jac ==
  /\ inv_jac = Unwritten33
  /\ InvJacCall(eval_inv_jac(elem_verts, point, elem_Z, elem_N))

\* The caller is done with the outputs of a call and allocates the arrays
\* of the next one (outputs are per-call: created, used and discarded).
NewCall ==
  /\ last_op # "none"
  /\ last_op' = "none" /\ last_axis' = 0 /\ divs' = {}
  /\ out' = Empty /\ out_count' = Empty
  /\ lag_nodes' = NewArray2(Cardinality(DOMAIN lag_nodes))
  /\ val_1d' = NewArray(Cardinality(DOMAIN val_1d))
  /\ DVal_1d' = NewArray(Cardinality(DOMAIN DVal_1d))
  /\ val_2d' = NewArray2(Cardinality(DOMAIN val_2d))
  /\ DVal_2d' = NewArray2(Cardinality(DOMAIN DVal_2d))
  /\ lag_basis_2d' = NewArray(Cardinality(DOMAIN lag_basis_2d))
  /\ lag_partial' = NewArray2(Cardinality(DOMAIN lag_partial))
  /\ sum1' = Unwritten /\ sum2' = Unwritten /\ rel_error' = Unwritten
  /\ dNf' = Unwritten3 /\ grad_f' = Unwritten3 /\ rel_errorN' = Unwritten3
  /\ dNphi' = Unwritten3 /\ grad_phi' = Unwritten3
  /\ x_point' \in (IF last_op = "physical_position" THEN XPointContents
                   ELSE {x_point})
  /\ vertices' = Empty /\ pos_order' = 0
  /\ lag_corner' = NewArray2(Cardinality(DOMAIN lag_corner))
  /\ raised' = "none"
  /\ jac' = Unwritten33 /\ det_jac' = Unwritten /\ inv_jac' = Unwritten33
  /\ UNCHANGED <<elem_type, lagVars, hexVars, quadIn, point, elem_verts,
                 concVars, fixedVars>>

Next ==
  \/ \E elem_order \in 0..MaxOrder : setup_HexN(elem_order)
  \/ \E d \in 0..2 : Hex_lagrange_basis_1D(d)
  \/ \E d \in 0..2 : Hex_lagrange_derivative_1D(d)
  \/ Hex_basis
  \/ Hex_partial_xi_basis
  \/ Hex_partial_eta_basis
  \/ Hex_partial_mu_basis
  \/ \E d \in 0..(num_dim - 1) : Quad_lagrange_1D(d)
  \/ Quad_basis_partials
  \/ NewCall

Spec == Init /\ [][Next]_vars

\* the routines of QuadN
NextQuad ==
  \/ \E d \in 0..(num_dim - 1) : Quad_lagrange_1D(d)
  \/ Quad_basis_partials
  \/ Quad_corners
  \/ \E order \in 0..MaxOrder, verts \in VertexArrays(lag_nodes) :
       \E behind \in Behind(order) :
         Quad_physical_position(order, verts, behind)
  \/ NewCall

\* QuadN called for the basis and then for the physical position
SpecPosition == InitPosition /\ [][NextQuad]_vars

\* QuadN called with a node set in which a coordinate is repeated
SpecRepeated == InitRepeated /\ [][NextQuad]_vars

\* the test of the LagrangeElement
NextTest == test1_case \/ NewCall

SpecTest == InitLagrangeElement /\ [][NextTest]_vars

\* the tests of the gradients of the LagrangeElement
NextGrad == test2_case \/ test3_case \/ NewCall

SpecGrad == InitGrad /\ [][NextGrad]_vars

\* the Jacobian of the map of the LagrangeElement to space
NextMap == Lag_eval_jac \/ Lag_eval_det_jac \/ Lag_eval_inv_jac \/ NewCall

SpecMap == InitMap /\ [][NextMap]_vars

\* Two callers evaluate eval_approx on one element at the same time, each
\* with a point and a coefficient vector of its own.
ConcCoords == { Rat(-1, MaxOrder), Zero }

InitConc ==
  /\ TestParams(ConcCoords) /\ elem_verts = Empty
  /\ C = NewArray(elem_N * elem_N)
  /\ call_pc = [k \in Calls |-> "called"]
  /\ call_X \in [Calls -> [0..2 -> ConcCoords]]
  /\ call_c \in [Calls -> CoeffVectors(elem_N * elem_N * elem_N)]
  /\ call_X[1] = point /\ call_c[1] = p_c
  /\ call_result = [k \in Calls |-> Unwritten]

concFrame == <<elem_type, hexVars, quadIn, quadOut, point, hexOut, last_op,
               last_axis, divs, lagVars, testOut, test2Out, test3Out,
               posVars, raised, mapVars, fixedVars>>

\* call k of eval_approx fills the work array of the element
Lag_eval_approx_contract(k) ==
  /\ elem_type = "LagrangeElement" /\ call_pc[k] = "called"
  /\ C' = contract_first_axis(call_c[k], call_X[k], elem_Z, elem_N)
  /\ call_pc' = [call_pc EXCEPT ![k] = "contracted"]
  /\ UNCHANGED <<concFrame, call_X, call_c, call_result>>

\* call k of eval_approx sums up the work array of the element and returns
Lag_eval_approx_finish(k) ==
  /\ elem_type = "LagrangeElement" /\ call_pc[k] = "contracted"
  /\ call_result' =
       [call_result EXCEPT
          ![k] = finish_from_work(C, call_X[k], elem_Z, elem_N)]
  /\ call_pc' = [call_pc EXCEPT ![k] = "returned"]
  /\ UNCHANGED <<concFrame, C, call_X, call_c>>

NextConc ==
  \/ \E k \in Calls : Lag_eval_approx_contract(k)
  \/ \E k \in Calls : Lag_eval_approx_finish(k)

SpecConc == InitConc /\ [][NextConc]_vars

----------------------------------------------------------------------------
\* Fixed-order elements

\* a fixed-order element as its constructor leaves it, the caller's point
\* and the caller's array for the physical position
InitFixed ==
  /\ elem_type \in FixedElems
  /\ is_setup = FALSE
  /\ num_nodes_1d_ = 0 /\ num_nodes_ = 0 /\ num_verts_1d_ = 0
  /\ num_verts_ = 0 /\ num_basis_ = 0 /\ order_ = 0
  /\ HexN_Nodes_1d_ = Empty /\ HexN_Verts_1d_ = Empty /\ Vert_Node_map_ = Empty
  /\ orderN = 0 /\ nodes_1d = Empty
  /\ lag_nodes = Empty /\ val_1d = Empty /\ DVal_1d = Empty /\ val_2d = Empty
  /\ DVal_2d = Empty /\ lag_basis_2d = Empty /\ lag_partial = Empty
  /\ point \in FixedPoints(elem_type)
  /\ x_point \in FixedXPoints(elem_type)
  /\ out = Empty /\ out_count = Empty
  /\ last_op = "none" /\ last_axis = 0 /\ divs = {}
  /\ elem_N = 0 /\ elem_Z = Empty /\ p_c = Empty
  /\ sum1 = Unwritten /\ sum2 = Unwritten /\ rel_error = Unwritten
  /\ InitExt /\ elem_verts = Empty /\ NoCalls

\* a call of basis or of a partial-derivative routine of the element with
\* the caller's point; r is what the routine leaves in the output array
FixedCall(op, dim, r) ==
  /\ elem_type \in FixedElems /\ last_op = "none"
  /\ out' = r
  /\ last_op' = op /\ last_axis' = dim
  /\ UNCHANGED <<elem_type, hexVars, quadIn, quadOut, point, out_count, divs,
                 lagVars, testOut, extVars>>

\* basis(out, point)
Fixed_basis == FixedCall("basis", 0, FixedBasis(elem_type, point))

\* partial_xi_basis, partial_eta_basis, partial_mu_basis or
\* partial_tau_basis (out, point), for dim = 0, 1, 2, 3
Fixed_partial_basis(dim) ==
  /\ elem_type \in FixedElems
  /\ dim < FixedDim(elem_type)
  /\ FixedCall("partial_basis", dim, FixedPartial(elem_type, dim, point))

\* a call of physical_position with the vertex array verts; r is what the
\* routine did
FixedPositionCall(verts, r) ==
  /\ elem_type \in FixedElems /\ last_op = "none"
  /\ x_point' = r.x_point
  /\ trace' = [written |-> r.written, read |-> r.read]
  /\ vertices' = verts
  /\ last_op' = "physical_position"
  /\ UNCHANGED <<elem_type, hexVars, quadIn, quadOut, point, hexOut,
                 last_axis, divs, lagVars, testOut, test2Out, test3Out,
                 pos_order, lag_corner, raised, mapVars, concVars,
                 surface_to_dof_lid>>

\* physical_position(x_point, point, verts)
Fixed_physical_position(verts, behind) ==
  FixedPositionCall(verts, FixedPosition(elem_type, point, verts, behind))

\* the caller is done with the outputs of a call and goes on with an array
\* for the physical position that is fresh or has been used before
Fixed_new_call ==
  /\ elem_type \in FixedElems /\ last_op # "none"
  /\ last_op' = "none" /\ last_axis' = 0
  /\ out' = Empty
  /\ x_point' \in FixedXPoints(elem_type)
  /\ vertices' = Empty
  /\ trace' = NoTrace
  /\ UNCHANGED <<elem_type, hexVars, quadIn, quadOut, point, out_count, divs,
                 lagVars, testOut, test2Out, test3Out, pos_order, lag_corner,
                 raised, mapVars, concVars, surface_to_dof_lid>>

NextFixed ==
  \/ Fixed_basis
  \/ \E dim \in 0..3 : Fixed_partial_basis(dim)
  \/ \E verts \in FixedVertexArrays(elem_type), behind \in FixedBehind :
       Fixed_physical_position(verts, behind)
  \/ Fixed_new_call

SpecFixed == InitFixed /\ [][NextFixed]_vars

----------------------------------------------------------------------------
\* What a 1D evaluation read and wrote, for either element

\* the node coordinates the 1D evaluators read, and how many
Nodes1D == IF elem_type = "HexN" THEN HexN_Verts_1d_ ELSE nodes_1d

N1D == IF elem_type = "HexN" THEN num_verts_1d_ ELSE orderN + 1

X1D == point[last_axis]

\* a 1D evaluation has just written the N1D basis values
ValueWritten ==
  \/ elem_type = "HexN" /\ last_op = "lagrange_basis_1D"
  \/ elem_type = "QuadN" /\ last_op = "lagrange_1D"

Values1D == IF elem_type = "HexN" THEN out ELSE val_1d

\* a 1D evaluation has just written the N1D basis derivatives
DerivWritten ==
  \/ elem_type = "HexN" /\ last_op = "lagrange_derivative_1D"
  \/ elem_type = "QuadN" /\ last_op = "lagrange_1D"

Derivs1D == IF elem_type = "HexN" THEN out ELSE DVal_1d

Distinct(nodes, n) ==
  \A a \in 0..(n - 1) : \A b \in 0..(n - 1) : a # b => nodes[a] # nodes[b]

IsNode(nodes, n, x) == \E a \in 0..(n - 1) : nodes[a] = x

Less(a, b) == a[1] * b[2] < b[1] * a[2]

\* arr[0] + ... + arr[n-1]
RECURSIVE RSum(_, _)
RSum(arr, n) == IF n = 0 THEN Zero ELSE RAdd(RSum(arr, n - 1), arr[n - 1])

----------------------------------------------------------------------------
\* C1: partition of unity.  Whenever a 1D basis evaluation over N >= 2
\* pairwise distinct nodes has written its N values, for whatever
\* coordinate x it was called with, the N values sum to exactly 1.
C1_PartitionOfUnity ==
  (ValueWritten /\ N1D >= 2 /\ Distinct(Nodes1D, N1D))
    => RSum(Values1D, N1D) = One

\* reached: three nodes, x left of the reference interval
C1_Witness ==
  /\ ValueWritten /\ N1D = 3 /\ Distinct(Nodes1D, N1D)
  /\ Less(X1D, Rat(-1, 1))
  /\ RSum(Values1D, N1D) = One

\* C2: cardinality.  Whenever a 1D basis evaluation over pairwise distinct
\* nodes was called with x = node_j, the value written for index j is 1 and
\* the value written for every other index is 0.
C2_Cardinality ==
  (ValueWritten /\ Distinct(Nodes1D, N1D))
    => \A j \in 0..(N1D - 1) :
         Nodes1D[j] = X1D
           => \A i \in 0..(N1D - 1) :
                Values1D[i] = (IF i = j THEN One ELSE Zero)

\* reached: x is the middle one of three nodes
C2_Witness ==
  /\ ValueWritten /\ N1D = 3 /\ Distinct(Nodes1D, N1D)
  /\ Nodes1D[1] = X1D
  /\ Values1D[0] = Zero /\ Values1D[1] = One /\ Values1D[2] = Zero

\* C3: derivative partition.  Whenever a 1D derivative evaluation over
\* pairwise distinct nodes has written its N derivatives, for whatever x
\* (a node or not), the N derivatives sum to exactly 0.
C3_DerivativePartition ==
  (DerivWritten /\ Distinct(Nodes1D, N1D))
    => RSum(Derivs1D, N1D) = Zero

\* reached: x is one of three nodes and some derivative is not zero
C3_Witness ==
  /\ DerivWritten /\ N1D = 3 /\ Distinct(Nodes1D, N1D)
  /\ IsNode(Nodes1D, N1D, X1D)
  /\ \E i \in 0..(N1D - 1) : Derivs1D[i] # Zero
  /\ RSum(Derivs1D, N1D) = Zero

\* the product of (node_i - node_j) over j < k, j other than i: the
\* denominator after k passes of the inner loop
RECURSIVE NodeDiffProduct(_, _, _)
NodeDiffProduct(nodes, i, k) ==
  IF k = 0 THEN One
  ELSE RMul(NodeDiffProduct(nodes, i, k - 1),
            IF k - 1 # i THEN RSub(nodes[i], nodes[k - 1]) ELSE One)

NodeDiffProducts(nodes, n) ==
  { NodeDiffProduct(nodes, i, k) : i \in 0..(n - 1), k \in 0..n }

AllFinite(arr, n) == \A a \in 0..(n - 1) : IsFinite(arr[a])

\* C4: no singular division.  After every call on pairwise distinct nodes,
\* at whatever x (a node, or outside the interval), each divisor the call
\* divided by is a product of node differences (node_i - node_j), j other
\* than i, and is not zero; the values and derivatives written are finite.
C4_NoSingularDivision ==
  (last_op # "none" /\ Distinct(Nodes1D, N1D))
    => /\ \A dv \in divs :
            dv # Zero /\ IsFinite(dv) /\ dv \in NodeDiffProducts(Nodes1D, N1D)
       /\ ValueWritten => AllFinite(Values1D, N1D)
       /\ DerivWritten => AllFinite(Derivs1D, N1D)

\* reached: a derivative evaluation at x equal to one of three nodes
C4_Witness ==
  /\ DerivWritten /\ N1D = 3 /\ Distinct(Nodes1D, N1D)
  /\ IsNode(Nodes1D, N1D, X1D)
  /\ divs # {} /\ Zero \notin divs
  /\ AllFinite(Derivs1D, N1D)

\* the sum of 1/(x - node_j) over j < k, j other than i
RECURSIVE RecipSum(_, _, _, _)
RecipSum(nodes, x, i, k) ==
  IF k = 0 THEN Zero
  ELSE RAdd(RecipSum(nodes, x, i, k - 1),
            IF k - 1 # i THEN RDiv(One, RSub(x, nodes[k - 1])) ELSE Zero)

\* the values a 1D basis evaluation writes for the node set and x of the
\* derivative evaluation
ValuesAtX ==
  IF elem_type = "HexN"
  THEN lagrange_basis_1D(HexN_Verts_1d_, num_verts_1d_, X1D).vals
  ELSE val_1d

\* C5: away from the nodes the numerator-sum derivative is the textbook
\* form.  Whenever a 1D derivative evaluation over pairwise distinct nodes
\* was called with an x that is no node, the derivative written for each
\* index i equals the value written for i times the sum over j other than i
\* of 1/(x - node_j).
C5_TextbookDerivative ==
  (DerivWritten /\ Distinct(Nodes1D, N1D) /\ ~IsNode(Nodes1D, N1D, X1D))
    => LET vals == ValuesAtX
       IN  \A i \in 0..(N1D - 1) :
             Derivs1D[i] = RMul(vals[i], RecipSum(Nodes1D, X1D, i, N1D))

\* reached: three nodes, x between two of them, a derivative that is not 0
C5_Witness ==
  /\ DerivWritten /\ N1D = 3 /\ Distinct(Nodes1D, N1D)
  /\ ~IsNode(Nodes1D, N1D, X1D)
  /\ Less(Nodes1D[0], X1D) /\ Less(X1D, Nodes1D[2])
  /\ Derivs1D[0] # Zero
  /\ Derivs1D[0] = RMul(ValuesAtX[0], RecipSum(Nodes1D, X1D, 0, N1D))

----------------------------------------------------------------------------
\* Tensor-product claims

\* the multi-index of flat index m for N entries per axis, axis 1 fastest
MultiIndex(m, N) == <<m % N, (m \div N) % N, m \div (N * N)>>

HexVals(d) == lagrange_basis_1D(HexN_Verts_1d_, num_verts_1d_, point[d]).vals

HexDerivs(d) ==
  lagrange_derivative_1D(HexN_Verts_1d_, num_verts_1d_, point[d]).vals

QuadVals(d) == lagrange_1D(point[d], nodes_1d, orderN).interp

QuadDerivs(d) == lagrange_1D(point[d], nodes_1d, orderN).Dinterp

\* out[m] is a0[i] * a1[j] * a2[k] for the multi-index (i,j,k) of every m,
\* and every entry of out was written exactly once
HexTensorOf(a0, a1, a2) ==
  /\ DOMAIN out = 0..(num_basis_ - 1)
  /\ \A m \in 0..(num_basis_ - 1) :
       LET t == MultiIndex(m, num_verts_1d_)
       IN  /\ out_count[m] = 1
           /\ out[m] = RMul(RMul(a0[t[1]], a1[t[2]]), a2[t[3]])

\* C6: tensor-product basis value.  After HexN::basis the entry of every
\* flat index m is the product of the three per-axis 1D values of m's
\* multi-index, each at its own coordinate of point, and every flat index
\* 0..num_basis-1 was written exactly once; after QuadN::basis_partials
\* lag_basis_2d(m) is the product of the two per-axis 1D values.
C6_TensorBasis ==
  /\ (elem_type = "HexN" /\ last_op = "basis")
       => HexTensorOf(HexVals(0), HexVals(1), HexVals(2))
  /\ (elem_type = "QuadN" /\ last_op = "basis_partials")
       => LET N  == orderN + 1
              v0 == QuadVals(0)
              v1 == QuadVals(1)
          IN  /\ DOMAIN lag_basis_2d = 0..(N * N - 1)
              /\ \A m \in 0..(N * N - 1) :
                   lag_basis_2d[m] = RMul(v0[m % N], v1[m \div N])

\* reached: HexN::basis with three vertices per axis at a point none of
\* whose coordinates is a vertex coordinate, all 27 entries written
C6_Witness ==
  /\ elem_type = "HexN" /\ last_op = "basis" /\ num_verts_1d_ = 3
  /\ \A d \in 0..2 : ~IsNode(HexN_Verts_1d_, num_verts_1d_, point[d])
  /\ point[0] # point[1] /\ point[1] # point[2]
  /\ \A m \in 0..26 : out_count[m] = 1 /\ out[m] # Zero

\* C7: tensor-product gradient.  After HexN::partial_xi_basis,
\* partial_eta_basis, partial_mu_basis (axis d = 0, 1, 2) the entry of every
\* flat index m is the product of the per-axis 1D values of m's multi-index
\* with exactly the axis-d factor replaced by the 1D derivative at
\* point(d); after QuadN::basis_partials lag_partial(m, d) is that product
\* for d = 0, 1.
C7_TensorGradient ==
  /\ (elem_type = "HexN" /\ last_op = "partial_xi_basis")
       => HexTensorOf(HexDerivs(0), HexVals(1), HexVals(2))
  /\ (elem_type = "HexN" /\ last_op = "partial_eta_basis")
       => HexTensorOf(HexVals(0), HexDerivs(1), HexVals(2))
  /\ (elem_type = "HexN" /\ last_op = "partial_mu_basis")
       => HexTensorOf(HexVals(0), HexVals(1), HexDerivs(2))
  /\ (elem_type = "QuadN" /\ last_op = "basis_partials")
       => LET N  == orderN + 1
              v0 == QuadVals(0)
              v1 == QuadVals(1)
              g0 == QuadDerivs(0)
              g1 == QuadDerivs(1)
          IN  \A m \in 0..(N * N - 1) :
                /\ lag_partial[m][0] = RMul(g0[m % N], v1[m \div N])
                /\ lag_partial[m][1] = RMul(v0[m % N], g1[m \div N])

\* reached: HexN::partial_mu_basis with three vertices per axis at a point
\* with no vertex coordinate, where the entry of flat index 5 is not zero
C7_Witness ==
  /\ elem_type = "HexN" /\ last_op = "partial_mu_basis" /\ num_verts_1d_ = 3
  /\ \A d \in 0..2 : ~IsNode(HexN_Verts_1d_, num_verts_1d_, point[d])
  /\ point[0] # point[2]
  /\ out[5] # Zero
  /\ out[5] = RMul(RMul(HexVals(0)[2], HexVals(1)[1]), HexDerivs(2)[0])

\* the triples (i,j,k) with every index in 0..N-1
Cube(N) == (0..(N - 1)) \X (0..(N - 1)) \X (0..(N - 1))

\* C8: flat index and multi-index are consistent inverses.  For the axis
\* sizes N of the element (HexN: num_verts_1d and num_nodes_1d; QuadN:
\* orderN + 1), vert_rid and node_rid map the N*N*N triples one-to-one onto
\* 0..N*N*N-1 with axis 1 fastest (a step in i, j, k moves the flat index by
\* 1, N, N*N), and the zero-based decode of QuadN::basis_partials satisfies
\* decode(i + j*N) = (i,j) and i + j*N = m for (i,j) = decode(m).
C8_IndexBijection ==
  /\ (elem_type = "HexN" /\ is_setup)
       => LET N == num_verts_1d_
              M == num_nodes_1d_
          IN  /\ { vert_rid(t[1], t[2], t[3], N) : t \in Cube(N) }
                   = 0..(N * N * N - 1)
              /\ { node_rid(t[1], t[2], t[3], M) : t \in Cube(M) }
                   = 0..(M * M * M - 1)
              /\ \A t \in Cube(N - 1) :
                   /\ vert_rid(t[1] + 1, t[2], t[3], N)
                        = vert_rid(t[1], t[2], t[3], N) + 1
                   /\ vert_rid(t[1], t[2] + 1, t[3], N)
                        = vert_rid(t[1], t[2], t[3], N) + N
                   /\ vert_rid(t[1], t[2], t[3] + 1, N)
                        = vert_rid(t[1], t[2], t[3], N) + N * N
              /\ \A t \in Cube(M - 1) :
                   /\ node_rid(t[1] + 1, t[2], t[3], M)
                        = node_rid(t[1], t[2], t[3], M) + 1
                   /\ node_rid(t[1], t[2] + 1, t[3], M)
                        = node_rid(t[1], t[2], t[3], M) + M
                   /\ node_rid(t[1], t[2], t[3] + 1, M)
                        = node_rid(t[1], t[2], t[3], M) + M * M
  /\ elem_type = "QuadN"
       => LET N == orderN + 1
          IN  /\ \A i \in 0..(N - 1) : \A j \in 0..(N - 1) :
                   /\ QuadI(i + j * N, N) - 1 = i
                   /\ QuadJ(i + j * N, N) - 1 = j
              /\ \A m \in 0..(N * N - 1) :
                   /\ QuadI(m, N) - 1 \in 0..(N - 1)
                   /\ QuadJ(m, N) - 1 \in 0..(N - 1)
                   /\ (QuadI(m, N) - 1) + (QuadJ(m, N) - 1) * N = m

\* reached: a HexN of three vertices and five nodes per axis, whose last
\* vertex and node have flat indices 26 and 124
C8_Witness ==
  /\ elem_type = "HexN" /\ is_setup
  /\ num_verts_1d_ = 3 /\ num_nodes_1d_ = 5
  /\ vert_rid(2, 2, 2, num_verts_1d_) = num_verts_ - 1
  /\ node_rid(4, 4, 4, num_nodes_1d_) = num_nodes_ - 1
  /\ vert_rid(0, 1, 0, num_verts_1d_) = 3

Kronecker(a, b) == IF a = b THEN One ELSE Zero

\* C9: the flat index means the same multi-index in basis evaluation and in
\* vertex ordering.  After HexN::basis at the point whose coordinates are
\* the 1D vertex coordinates of (i',j',k'), the entry of flat index m is 1
\* for m = vert_rid(i',j',k') and 0 for every other m; after
\* QuadN::basis_partials at the point stored in lag_nodes(m',:),
\* lag_basis_2d(m) is 1 for m = m' and 0 for every other m.
C9_VertexKronecker ==
  /\ (elem_type = "HexN" /\ last_op = "basis")
       => \A t \in Cube(num_verts_1d_) :
            (/\ point[0] = HexN_Verts_1d_[t[1]]
             /\ point[1] = HexN_Verts_1d_[t[2]]
             /\ point[2] = HexN_Verts_1d_[t[3]])
              => \A m \in 0..(num_basis_ - 1) :
                   out[m] = Kronecker(m, vert_rid(t[1], t[2], t[3],
                                                  num_verts_1d_))
  /\ (elem_type = "QuadN" /\ last_op = "basis_partials")
       => \A mp \in 0..((orderN + 1) * (orderN + 1) - 1) :
            (point[0] = lag_nodes[mp][0] /\ point[1] = lag_nodes[mp][1])
              => \A m \in 0..((orderN + 1) * (orderN + 1) - 1) :
                   lag_basis_2d[m] = Kronecker(m, mp)

\* reached: HexN::basis with three vertices per axis at vertex (2, 1, 0),
\* whose flat index is 5
C9_Witness ==
  /\ elem_type = "HexN" /\ last_op = "basis" /\ num_verts_1d_ = 3
  /\ point[0] = HexN_Verts_1d_[2]
  /\ point[1] = HexN_Verts_1d_[1]
  /\ point[2] = HexN_Verts_1d_[0]
  /\ out[5] = One /\ out[15] = Zero

----------------------------------------------------------------------------
\* LagrangeElement claims

\* every coordinate of point is one of the element's 1D nodes
AllCoincident == \A d \in 0..2 : IsNode(elem_Z, elem_N, point[d])

\* no coordinate of point is one of the element's 1D nodes
NoneCoincident == \A d \in 0..2 : ~IsNode(elem_Z, elem_N, point[d])

----------------------------------------------------------------------------
----------------------------------------------------------------------------
----------------------------------------------------------------------------
\* the sum over the first len vertices of verts[i][dim] * basis_vals[i]
RECURSIVE VertexSum(_, _, _, _)
VertexSum(verts, basis_vals, dim, len) ==
  IF len = 0 THEN Zero
  ELSE RAdd(VertexSum(verts, basis_vals, dim, len - 1),
            RMul(verts[len - 1][dim], basis_vals[len - 1]))

\* C12: geometric map.  For every point and every vertex array,
\* physical_position produces x with x[d] = the sum over i of
\* vertices[i][d] * basis(point)[i] for every component d, whatever the
\* caller's x held before the call.
C12_PhysicalPosition ==
  (last_op = "physical_position" /\ pos_order = orderN) =>
    \A dim \in 0..(num_dim - 1) :
      x_point[dim] =
        VertexSum(vertices, lag_basis_2d, dim, (orderN + 1) * (orderN + 1))

----------------------------------------------------------------------------
\* the product of two 3 x 3 matrices
MatMul(A, B) ==
  [a \in 0..2 |->
     [b \in 0..2 |->
        RAdd(RAdd(RMul(A[a][0], B[0][b]), RMul(A[a][1], B[1][b])),
             RMul(A[a][2], B[2][b]))]]

Identity33 == [a \in 0..2 |-> [b \in 0..2 |-> IF a = b THEN One ELSE Zero]]

\* the determinant of a 3 x 3 matrix as the sum of its three falling
\* diagonals minus the sum of its three rising ones
Sarrus(J) ==
  RSub(RAdd(RAdd(RMul(RMul(J[0][0], J[1][1]), J[2][2]),
                 RMul(RMul(J[0][1], J[1][2]), J[2][0])),
            RMul(RMul(J[0][2], J[1][0]), J[2][1])),
       RAdd(RAdd(RMul(RMul(J[0][2], J[1][1]), J[2][0]),
                 RMul(RMul(J[0][0], J[1][2]), J[2][1])),
            RMul(RMul(J[0][1], J[1][0]), J[2][2])))

\* C13: Jacobian inverse round trip.  Wherever det(J) # 0, the matrix written
\* by eval_jac times the matrix written by eval_inv_jac is the identity, in
\* either order, and eval_det_jac returns the determinant of the matrix
\* written by eval_jac.
C13_JacobianRoundTrip ==
  /\ (jac # Unwritten33 /\ inv_jac # Unwritten33) =>
       /\ Sarrus(jac) # Zero
       /\ MatMul(jac, inv_jac) = Identity33
       /\ MatMul(inv_jac, jac) = Identity33
  /\ (jac # Unwritten33 /\ det_jac # Unwritten) => det_jac = Sarrus(jac)
  /\ (jac # Unwritten33 /\ Sarrus(jac) # Zero /\ last_op = "eval_inv_jac") =>
       inv_jac # Unwritten33

\* all three routines ran on a tapered element, whose Jacobian is neither
\* diagonal nor constant, and the inverse was written
C13_Witness ==
  /\ elem_verts = VertexArray3(elem_Z, elem_N, "Tapered")
  /\ elem_N >= 3
  /\ jac # Unwritten33 /\ det_jac # Unwritten /\ inv_jac # Unwritten33
  /\ jac[0][1] # Zero
  /\ det_jac # One

----------------------------------------------------------------------------
\* C14: a node set with a repeated coordinate is refused.  With such a node
\* set no evaluation takes place other than by reporting DegenerateNodeSet,
\* and no evaluation divides by a product of node differences that is 0.
C14_DegenerateNodeSet ==
  (~Distinct(Nodes1D, N1D) /\ last_op # "none") =>
    (raised = "DegenerateNodeSet" /\ Zero \notin divs)

----------------------------------------------------------------------------
\* the number of vertices physical_position goes through for its order
Nnodes_2d == (pos_order + 1) * (pos_order + 1)

\* the number of vertices the arrays handed to physical_position hold
SuppliedLength == Cardinality(DOMAIN lag_basis_2d)

\* C16: a dimension mismatch is reported.  When the arrays handed to a call
\* hold another number of entries than the call goes through, the call
\* reports DimensionMismatch; it neither reads past the end of the arrays
\* nor uses only their first entries without saying so.
C16_DimensionMismatch ==
  (last_op = "physical_position" /\ Nnodes_2d # SuppliedLength) =>
    raised = "DimensionMismatch"

----------------------------------------------------------------------------
\* a step in which a routine of HexN is called
HexEvaluation == elem_type = "HexN" /\ last_op = "none" /\ last_op' # "none"

\* C18: evaluation leaves the element and its inputs unchanged.  From
\* setup_HexN on, no step changes the 1D vertex coordinates, the node table,
\* the vertex-to-node map or the counts of the element, nor the caller's
\* point; a call of basis, partial_xi_basis, partial_eta_basis,
\* partial_mu_basis, lagrange_basis_1D or lagrange_derivative_1D writes its
\* output array and nothing else of the caller's.
C18_EvaluationFrame ==
  [][ /\ (elem_type = "HexN" /\ is_setup) =>
           (hexVars' = hexVars /\ point' = point)
      /\ HexEvaluation =>
           /\ is_setup
           /\ UNCHANGED <<quadIn, quadOut, lagVars, testOut, extVars>> ]_vars

\* partial_mu_basis has been called away from the origin and has written
\* every entry of its output
C18_Witness ==
  /\ elem_type = "HexN" /\ is_setup /\ last_op = "partial_mu_basis"
  /\ point # [d \in 0..2 |-> Zero]
  /\ \A slot \in DOMAIN out : out[slot] # Unwritten
  /\ Cardinality(DOMAIN out) = num_basis_

----------------------------------------------------------------------------
\* what call k of eval_approx returns when it runs alone
ResultAlone(k) == eval_approx(call_c[k], call_X[k], elem_Z, elem_N)

----------------------------------------------------------------------------
\* the stride of the vertices among the nodes: setup_HexN(0) builds two
\* nodes per axis and takes each, setup_HexN(p) with p >= 1 builds 2p + 1
\* and takes every other one
VertexStride == IF num_nodes_1d_ = 2 THEN 1 ELSE 2

\* C28: the vertex-to-node map of HexN takes every other node.  After
\* setup_HexN(p), num_basis = num_verts = num_verts_1d^3; for all i, j, k
\* below num_verts_1d, vert_node_map(vert_rid(i,j,k)) =
\* node_rid(s*i, s*j, s*k) with s = 2 for p >= 1 and s = 1 for p = 0; every
\* one of the num_verts entries is assigned, and the map is injective into
\* 0..num_nodes-1.
C28_VertexNodeMap ==
  (elem_type = "HexN" /\ is_setup) =>
    LET N == num_verts_1d_
        s == VertexStride
    IN  /\ num_verts_ = N * N * N /\ num_basis_ = num_verts_
        /\ DOMAIN Vert_Node_map_ = 0..(num_verts_ - 1)
        /\ \A t \in Cube(N) :
             Vert_Node_map_[vert_rid(t[1], t[2], t[3], N)]
               = node_rid(s * t[1], s * t[2], s * t[3], num_nodes_1d_)
        /\ \A v \in 0..(num_verts_ - 1) :
             /\ Vert_Node_map_[v] # Unassigned
             /\ Vert_Node_map_[v] \in 0..(num_nodes_ - 1)
        /\ \A v \in 0..(num_verts_ - 1) : \A w \in 0..(num_verts_ - 1) :
             Vert_Node_map_[v] = Vert_Node_map_[w] => v = w

\* reached: setup_HexN(2), whose last vertex, 26, is the last node, 124
C28_Witness ==
  /\ elem_type = "HexN" /\ is_setup
  /\ num_nodes_1d_ = 5 /\ num_verts_1d_ = 3
  /\ Vert_Node_map_[26] = 124

----------------------------------------------------------------------------
\* C29: the two arbitrary-order 1D evaluators agree.  For the same pairwise
\* distinct nodes and the same x, QuadN::lagrange_1D writes for every index
\* the value HexN::lagrange_basis_1D writes and the derivative
\* HexN::lagrange_derivative_1D writes.
C29_EvaluatorsAgree ==
  Distinct(Nodes1D, N1D) =>
    /\ (elem_type = "QuadN" /\ last_op = "lagrange_1D") =>
         /\ val_1d = lagrange_basis_1D(nodes_1d, orderN + 1, X1D).vals
         /\ DVal_1d = lagrange_derivative_1D(nodes_1d, orderN + 1, X1D).vals
    /\ (elem_type = "HexN" /\ last_op = "lagrange_basis_1D") =>
         out = lagrange_1D(X1D, HexN_Verts_1d_, num_verts_1d_ - 1).interp
    /\ (elem_type = "HexN" /\ last_op = "lagrange_derivative_1D") =>
         out = lagrange_1D(X1D, HexN_Verts_1d_, num_verts_1d_ - 1).Dinterp

\* reached: QuadN::lagrange_1D on three nodes at an x that is none of
\* them, with a derivative that is not zero
C29_Witness ==
  /\ elem_type = "QuadN" /\ last_op = "lagrange_1D" /\ orderN = 2
  /\ ~IsNode(nodes_1d, 3, X1D)
  /\ \A i \in 0..2 : DVal_1d[i] # Zero /\ IsFinite(DVal_1d[i])

----------------------------------------------------------------------------
\* C30: QuadN::corners selects the four geometric corners of the element.
\* With N = orderN + 1 nodes per axis, rows 0..3 of lag_corner are the rows
\* 0, N-1, N*N-N and N*N-1 of lag_nodes, all within 0..N*N-1, and these are
\* the nodes of multi-indices (0,0), (N-1,0), (0,N-1) and (N-1,N-1).
C30_Corners ==
  (elem_type = "QuadN" /\ last_op = "corners") =>
    LET N == orderN + 1
        first == nodes_1d[0]
        last == nodes_1d[N - 1]
    IN  /\ \A corner \in 1..4 : corner_ids(N)[corner] \in 0..(N * N - 1)
        /\ lag_corner[0] = lag_nodes[0]
        /\ lag_corner[1] = lag_nodes[N - 1]
        /\ lag_corner[2] = lag_nodes[N * N - N]
        /\ lag_corner[3] = lag_nodes[N * N - 1]
        /\ lag_corner[0] = Row2(first, first)
        /\ lag_corner[1] = Row2(last, first)
        /\ lag_corner[2] = Row2(first, last)
        /\ lag_corner[3] = Row2(last, last)

\* reached: the corners of an element of order 2, all four different
C30_Witness ==
  /\ elem_type = "QuadN" /\ last_op = "corners" /\ orderN = 2
  /\ \A a \in 0..3 : \A b \in 0..3 : a # b => lag_corner[a] # lag_corner[b]

----------------------------------------------------------------------------
\* Fixed-order elements: the tables

\* vert_node_map(vert_lid) of the element e
vert_node_map(e, vert_lid) == FixedVertToNode(e)[vert_lid]

\* the fixed-order elements that have a vertex-to-node table, and the
\* number M of nodes along an axis of the reference grid of each
GridElems == { "Quad4", "Quad8", "Quad12", "Hex8", "Hex20", "Hex32" }

GridM(e) ==
  CASE e \in { "Quad4", "Hex8" } -> 3
    [] e \in { "Quad8", "Hex20" } -> 5
    [] e \in { "Quad12", "Hex32" } -> 7

\* the index along one axis of the grid point at the coordinate c of the
\* uniform grid of M points on [-1, 1]: (c + 1) * (M - 1) / 2, and -1 if
\* no grid point lies at c
GridAxisIndex(c, M) ==
  LET at == RDiv(RMul(RAdd(c, One), Rat(M - 1, 1)), Rat(2, 1))
  IN  IF at[2] = 1 THEN at[1] ELSE -1

\* i + j*M (+ k*M*M) for the grid point at ref_vert(vert_lid)
RECURSIVE GridFlatIndex(_, _, _)
GridFlatIndex(e, vert_lid, dim) ==
  IF dim = FixedDim(e) THEN 0
  ELSE GridAxisIndex(ref_locs(e, vert_lid, dim), GridM(e))
         + GridM(e) * GridFlatIndex(e, vert_lid, dim + 1)

\* C26: for every fixed-order element with a vertex-to-node table and every
\* vertex v, vert_node_map(v) is the flat index i + j*M (+ k*M*M) of the
\* point of the uniform M-per-axis reference grid that lies at ref_vert(v),
\* and no two vertices map to the same node.
C26_VertToNodeGrid ==
  elem_type \in GridElems =>
    /\ \A v \in 0..(FixedVerts(elem_type) - 1) :
         vert_node_map(elem_type, v) = GridFlatIndex(elem_type, v, 0)
    /\ \A v, w \in 0..(FixedVerts(elem_type) - 1) :
         vert_node_map(elem_type, v) = vert_node_map(elem_type, w) => v = w

\* the vertex ids whose ref_vert lies on the face of the reference element
\* on which the coordinate dim is fixed at side (-1 or +1)
FaceVerts(e, dim, side) ==
  { v \in 0..(FixedVerts(e) - 1) : ref_locs(e, v, dim) = Rat(side, 1) }

\* the faces <<dim, side>> whose vertex ids are the entries of the row of a
\* surface
FacesOf(e, row) ==
  { face \in (0..(FixedDim(e) - 1)) \X { -1, 1 } :
      { row[i] : i \in DOMAIN row } = FaceVerts(e, face[1], face[2]) }

\* C27: after constructing a fixed-order element with a surface table, for
\* every surface s every entry surface_to_dof_lid(s, 0..stride-1) has been
\* assigned, the entries of one surface are pairwise distinct, they are
\* exactly the vertex ids whose ref_vert lies on one face of the reference
\* element, and different surfaces list different faces.
C27_SurfaceTables ==
  elem_type \in GridElems =>
    /\ \A s \in DOMAIN surface_to_dof_lid :
         /\ \A i \in DOMAIN surface_to_dof_lid[s] :
              surface_to_dof_lid[s][i] # Unassigned
         /\ \A i, j \in DOMAIN surface_to_dof_lid[s] :
              surface_to_dof_lid[s][i] = surface_to_dof_lid[s][j] => i = j
         /\ FacesOf(elem_type, surface_to_dof_lid[s]) # {}
    /\ \A s, t \in DOMAIN surface_to_dof_lid :
         FacesOf(elem_type, surface_to_dof_lid[s])
           = FacesOf(elem_type, surface_to_dof_lid[t]) => s = t

----------------------------------------------------------------------------
\* Fixed-order elements: the shape functions

\* arr[0] + ... + arr[n - 1]
RECURSIVE SumFirst(_, _)
SumFirst(arr, n) ==
  IF n = 0 THEN Zero ELSE RAdd(SumFirst(arr, n - 1), arr[n - 1])

\* C23: for every fixed-order element and every reference point, the values
\* basis() writes over all vertices 0..num_verts-1 sum to 1.
C23_PartitionOfUnity ==
  (elem_type \in FixedElems /\ last_op = "basis") =>
    SumFirst(out, FixedVerts(elem_type)) = One

\* basis() of Hex20 at a point that is no vertex: some value is negative
\* and the values sum to 1
C23_Witness ==
  /\ elem_type = "Hex20" /\ last_op = "basis"
  /\ point[0] = Rat(1, 2)
  /\ \E v \in 0..19 : out[v][1] < 0
  /\ SumFirst(out, 20) = One

\* C22: for every fixed-order element and all vertices v, w, basis()
\* evaluated at the reference position ref_vert(w) writes 1 at index v = w
\* and 0 at every index v # w.
C22_Nodal ==
  (elem_type \in FixedElems /\ last_op = "basis") =>
    \A w \in 0..(FixedVerts(elem_type) - 1) :
      point = RefPoint(elem_type, w) =>
        \A v \in 0..(FixedVerts(elem_type) - 1) :
          out[v] = (IF v = w THEN One ELSE Zero)

\* basis() of Hex32 at the reference position of its last vertex
C22_Witness ==
  /\ elem_type = "Hex32" /\ last_op = "basis"
  /\ point = RefPoint("Hex32", 31)
  /\ out[31] = One /\ out[0] = Zero /\ out[30] = Zero

\* the point xi moved by step along the reference coordinate dim
Shifted(xi, dim, step) ==
  [d \in DOMAIN xi |-> IF d = dim THEN RAdd(xi[d], Rat(step, 1)) ELSE xi[d]]

\* the partial derivative along dim, at xi, of the polynomial basis()
\* evaluates for the vertex v.  For a polynomial p of degree at most 4,
\* p'(x) = (p(x-2) - 8 p(x-1) + 8 p(x+1) - p(x+2)) / 12 exactly, and no
\* shape function has a degree above 3 in any one coordinate.
BasisDerivative(e, v, dim, xi) ==
  RDiv(RAdd(RSub(FixedBasis(e, Shifted(xi, dim, -2))[v],
                 RMul(Rat(8, 1), FixedBasis(e, Shifted(xi, dim, -1))[v])),
            RSub(RMul(Rat(8, 1), FixedBasis(e, Shifted(xi, dim, 1))[v]),
                 FixedBasis(e, Shifted(xi, dim, 2))[v])),
       Rat(12, 1))

\* C21: for every fixed-order element, every vertex v and every reference
\* point, what partial_xi_basis / partial_eta_basis / partial_mu_basis /
\* partial_tau_basis writes at v is the partial derivative, along the
\* corresponding reference coordinate, of the polynomial that basis()
\* evaluates for the vertex v.
C21_PartialsAreDerivatives ==
  (elem_type \in FixedElems /\ last_op = "partial_basis") =>
    \A v \in 0..(FixedVerts(elem_type) - 1) :
      out[v] = BasisDerivative(elem_type, v, last_axis, point)

----------------------------------------------------------------------------
\* Fixed-order elements: the geometric map

\* the sum over v in 0..n-1 of verts(v, dim) * b(v)
RECURSIVE MappedSum(_, _, _, _)
MappedSum(verts, b, dim, n) ==
  IF n = 0 THEN Zero
  ELSE RAdd(MappedSum(verts, b, dim, n - 1),
            RMul(verts[n - 1][dim], b[n - 1]))

\* C24: for every fixed-order element, every reference point xi and every
\* vertex array, physical_position writes x[d] = sum over v in
\* 0..num_verts-1 of vertices(v, d) * b(v) for every component d, where b is
\* what the same element's basis() writes for the same xi, whatever x_point
\* held before the call.
C24_PositionAgreesWithBasis ==
  (elem_type \in FixedElems /\ last_op = "physical_position") =>
    \A d \in 0..(FixedDim(elem_type) - 1) :
      x_point[d] = MappedSum(vertices, FixedBasis(elem_type, point), d,
                             FixedVerts(elem_type))

\* C25: in every physical_position routine every access to the local basis
\* array, to ref_vert and to the vertices array uses a vertex index in
\* 0..num_verts-1, and every basis entry that is read was written earlier
\* in the same call.
C25_PositionIndexBounds ==
  (elem_type \in FixedElems /\ last_op = "physical_position") =>
    /\ trace.written \subseteq 0..(FixedVerts(elem_type) - 1)
    /\ trace.read \subseteq 0..(FixedVerts(elem_type) - 1)
    /\ trace.read \subseteq trace.written

====
